---------------------------- MODULE Spec2Model ----------------------------
(***************************************************************************)
(* Model of isbn-validation/validate_editions.py: the edition normaliser,  *)
(* the edition comparison, per-book validation, the repair search over the *)
(* two metadata sources, and the repair applier.                           *)
(*                                                                         *)
(* Python strings that the code inspects character by character (edition   *)
(* strings, titles, volume ids) are sequences of one-character strings.    *)
(* Strings that the code only compares or tests for emptiness (ISBNs, row  *)
(* titles of the applier, notes) are TLA+ strings.                         *)
(***************************************************************************)
EXTENDS Integers, Sequences, FiniteSets, TLC

(***************************************************************************)
(* Bounds of the model.                                                    *)
(***************************************************************************)
MaxBooks == 2

MaxRows == 2

MaxCand == 3

MaxWorks == 2

MaxEntries == 1

MaxSugg == 2

MaxCatalog == 2

\* rows of the results file when rows of every kind are drawn
MaxBatchRows == 3

(***************************************************************************)
(* Python values.                                                          *)
(***************************************************************************)
\* Python's None where a character string is expected.  Every string is a
\* tuple of one-character strings, so this tuple is not a string.
None == <<"None">>

\* Python's truth test of an optional string: None and '' are false.
IsFalsy(s) == s = None \/ s = <<>>

WhiteSpace == {" ", "\t"}

Digits == {"0", "1", "2", "3", "4", "5", "6", "7", "8", "9"}

UpperChars == <<"A","B","C","D","E","F","G","H","I","J","K","L","M","N","O","P","Q","R","S","T","U","V","W","X","Y","Z">>

LowerChars == <<"a","b","c","d","e","f","g","h","i","j","k","l","m","n","o","p","q","r","s","t","u","v","w","x","y","z">>

SetMin(S) == CHOOSE m \in S : \A x \in S : m <= x

SetMax(S) == CHOOSE m \in S : \A x \in S : x <= m

\* str.lower() on one character
LowerChar(c) ==
  IF \E i \in 1..Len(UpperChars) : UpperChars[i] = c
  THEN LowerChars[CHOOSE i \in 1..Len(UpperChars) : UpperChars[i] = c]
  ELSE c

\* str.lower()
Lower(s) == [i \in 1..Len(s) |-> LowerChar(s[i])]

\* str.strip(): drop leading and trailing whitespace
Strip(s) ==
  LET keep == {i \in 1..Len(s) : s[i] \notin WhiteSpace}
  IN  IF keep = {} THEN <<>> ELSE SubSeq(s, SetMin(keep), SetMax(keep))

\* Python's  sub in s  on strings: substring containment ('' is in every string)
Contains(sub, s) ==
  \E i \in 0..(Len(s) - Len(sub)) : SubSeq(s, i + 1, i + Len(sub)) = sub

\* re.search(r'\d+', s).group(0): the leftmost maximal run of digits, None if
\* there is no digit
FirstDigitRun(s) ==
  LET ds == {i \in 1..Len(s) : s[i] \in Digits}
  IN  IF ds = {} THEN None
      ELSE LET a == SetMin(ds)
               b == SetMax({j \in a..Len(s) : \A k \in a..j : s[k] \in Digits})
           IN  SubSeq(s, a, b)

(***************************************************************************)
(* normalize_edition                                                       *)
(***************************************************************************)
\* the dict word_to_num, in insertion (= iteration) order
word_to_num ==
  <<
     <<<<"f","i","r","s","t">>, <<"1">>>>,
     <<<<"1","s","t">>, <<"1">>>>,
     <<<<"s","e","c","o","n","d">>, <<"2">>>>,
     <<<<"2","n","d">>, <<"2">>>>,
     <<<<"t","h","i","r","d">>, <<"3">>>>,
     <<<<"3","r","d">>, <<"3">>>>,
     <<<<"f","o","u","r","t","h">>, <<"4">>>>,
     <<<<"4","t","h">>, <<"4">>>>,
     <<<<"f","i","f","t","h">>, <<"5">>>>,
     <<<<"5","t","h">>, <<"5">>>>,
     <<<<"s","i","x","t","h">>, <<"6">>>>,
     <<<<"6","t","h">>, <<"6">>>>,
     <<<<"s","e","v","e","n","t","h">>, <<"7">>>>,
     <<<<"7","t","h">>, <<"7">>>>,
     <<<<"e","i","g","h","t","h">>, <<"8">>>>,
     <<<<"8","t","h">>, <<"8">>>>,
     <<<<"n","i","n","t","h">>, <<"9">>>>,
     <<<<"9","t","h">>, <<"9">>>>,
     <<<<"t","e","n","t","h">>, <<"1","0">>>>,
     <<<<"1","0","t","h">>, <<"1","0">>>>,
     <<<<"e","l","e","v","e","n","t","h">>, <<"1","1">>>>,
     <<<<"1","1","t","h">>, <<"1","1">>>>,
     <<<<"t","w","e","l","f","t","h">>, <<"1","2">>>>,
     <<<<"1","2","t","h">>, <<"1","2">>>>,
     <<<<"t","h","i","r","t","e","e","n","t","h">>, <<"1","3">>>>,
     <<<<"1","3","t","h">>, <<"1","3">>>>,
     <<<<"f","o","u","r","t","e","e","n","t","h">>, <<"1","4">>>>,
     <<<<"1","4","t","h">>, <<"1","4">>>>,
     <<<<"f","i","f","t","e","e","n","t","h">>, <<"1","5">>>>,
     <<<<"1","5","t","h">>, <<"1","5">>>>
  >>

REVISED == <<"r","e","v","i","s","e","d">>

REV == <<"r","e","v">>

normalize_edition(edition_str) ==
  IF IsFalsy(edition_str) THEN None
  ELSE
    LET s    == Lower(Strip(edition_str))
        hits == {k \in 1..Len(word_to_num) : Contains(word_to_num[k][1], s)}
    IN  IF hits # {} THEN word_to_num[SetMin(hits)][2]
        ELSE IF FirstDigitRun(s) # None THEN FirstDigitRun(s)
        ELSE IF Contains(REVISED, s) \/ Contains(REV, s) THEN REVISED
        ELSE s

(***************************************************************************)
(* compare_editions                                                        *)
(***************************************************************************)
\* compare_editions with the 'revised' test moved before the equality test
compare_editions_revised_first(csv_edition, api_edition) ==
  LET csv_norm == normalize_edition(csv_edition)
  IN  IF IsFalsy(api_edition) THEN "uncertain"
      ELSE IF api_edition = REVISED THEN "uncertain"
      ELSE IF csv_norm = api_edition THEN "match"
      ELSE "mismatch"

compare_editions(csv_edition, api_edition) ==
  LET csv_norm == normalize_edition(csv_edition)
  IN  IF IsFalsy(api_edition) THEN "uncertain"
      ELSE IF csv_norm = api_edition THEN "match"
      ELSE IF api_edition = REVISED THEN "uncertain"
      ELSE "mismatch"


(***************************************************************************)
(* State.                                                                  *)
(***************************************************************************)
VARIABLES
  \* ---- compare_editions called on its own
  e_pc,             \* "off", "call", "done"
  e_csv_edition,    \* argument csv_edition
  e_api_edition,    \* argument api_edition
  e_status,         \* the returned status
  \* ---- normalize_edition called on its own, then on what it returned
  n_pc,             \* "off", "call", "returned", "returned again"
  n_edition_str,    \* argument edition_str of the first call
  n_result,         \* what the first call returned
  n_again,          \* what normalize_edition returned for n_result
  \* ---- the two searches called on one list of candidates
  c_pc,             \* "off", "google", "openlibrary", "done"
  c_candidates,     \* the candidates: title, edition token, ISBNs
  c_google,         \* what search_correct_isbn returned for them
  c_openlibrary,    \* what search_correct_isbn_openlibrary returned for them
  \* ---- main (validation mode) and validate_book
  v_pc,             \* position in main / validate_book
  v_entry,          \* "main": main's loop; "call": validate_book called directly
  v_dry_run,        \* the dry_run argument of validate_book
  books_to_check,   \* main: the filtered (and limited) rows
  v_i,              \* main: the loop index i of enumerate(books_to_check, 1)
  v_api_data,       \* validate_book: api_data
  v_result,         \* validate_book: result
  v_calls,          \* network calls issued for the current book, in order
  results,          \* main: results
  output_file,      \* the rows written to args.output (NotWritten before)
  v_sleeps,         \* number of time.sleep(1) calls made by main
  v_exc,            \* the exception that left main, "" if none
  \* ---- repair_mismatches and the two searches
  r_pc,             \* position in repair_mismatches / the searches
  r_draw,           \* what the run draws: "searches" (rows of one kind, every
                    \* response) or "rows" (rows of every kind, few responses)
  results_file,     \* the rows of the results file repair_mismatches reads
  r_searched,       \* the rows search_correct_isbn was called for, in order
  mismatches,       \* repair_mismatches: the rows with Match Status 'mismatch'
  r_i,              \* repair_mismatches: the loop index i
  r_result,         \* repair_mismatches: result
  r_calls,          \* network calls issued for the current book, in order
  g_items,          \* search_correct_isbn: data['items']
  g_idx,            \* search_correct_isbn: position of the loop over the items
  g_result,         \* search_correct_isbn: result
  ol_docs,          \* search_correct_isbn_openlibrary: data['docs']
  ol_idx,           \* search_correct_isbn_openlibrary: position of the loop over the docs
  ol_result,        \* search_correct_isbn_openlibrary: result (ol_result of the caller)
  suggestions,      \* repair_mismatches: suggestions
  repair_output,    \* the rows written to output_file (NotWritten before)
  r_sleeps,         \* number of time.sleep(1) calls made by repair_mismatches
  \* ---- apply_repairs
  a_pc,             \* position in apply_repairs
  suggestions_file, \* the rows of the suggestions file
  data_file,        \* the rows of data.csv
  a_catalog,        \* the rows data.csv had when apply_repairs was started
  backup_file,      \* the content of data.csv.bak (NoFile before)
  a_suggestions,    \* apply_repairs: suggestions
  a_books,          \* apply_repairs: books
  a_k,              \* apply_repairs: position of the loop over the suggestions
  changes_made,     \* apply_repairs: changes_made
  data_writes,      \* number of completed writes of data.csv
  backup_writes,    \* number of completed writes of data.csv.bak
  a_exc             \* the exception that left apply_repairs, "" if none

edVars == <<e_pc, e_csv_edition, e_api_edition, e_status>>

normVars == <<n_pc, n_edition_str, n_result, n_again>>

rulesVars == <<c_pc, c_candidates, c_google, c_openlibrary>>

valVars == <<v_pc, v_entry, v_dry_run, books_to_check, v_i, v_api_data,
             v_result, v_calls, results, output_file, v_sleeps, v_exc>>

repVars == <<r_pc, r_draw, results_file, r_searched, mismatches, r_i, r_result, r_calls, g_items, g_idx, g_result,
             ol_docs, ol_idx, ol_result, suggestions, repair_output, r_sleeps>>

appVars == <<a_pc, suggestions_file, data_file, a_catalog, backup_file,
             a_suggestions, a_books, a_k, changes_made, data_writes,
             backup_writes, a_exc>>

vars == <<edVars, normVars, rulesVars, valVars, repVars, appVars>>

(***************************************************************************)
(* compare_editions as a function of its two arguments.                    *)
(***************************************************************************)
\* the claimed (CSV) edition strings the checks draw from:
\* 'Second', '2', '3', '2nd', '2ND', 'Revised', 'rev', ' 3rd ', 'x', '' and ' '
ClaimedEditions ==
  { <<"S","e","c","o","n","d">>, <<"2">>, <<"3">>, <<"2","n","d">>,
    <<"2","N","D">>, <<"R","e","v","i","s","e","d">>, <<"r","e","v">>,
    <<" ","3","r","d"," ">>, <<"x">>, <<>>, <<" ">> }

\* the fetched edition tokens the checks draw from:
\* None, '', '2', '3', '10', 'revised', 'x'
FetchedEditions ==
  { None, <<>>, <<"2">>, <<"3">>, <<"1","0">>, REVISED, <<"x">> }

EditionInit ==
  /\ e_pc = "call"
  /\ e_csv_edition \in ClaimedEditions
  /\ e_api_edition \in FetchedEditions
  /\ e_status = ""

EditionIdle ==
  /\ e_pc = "off"
  /\ e_csv_edition = <<>>
  /\ e_api_edition = None
  /\ e_status = ""

CompareEditions ==
  /\ e_pc = "call"
  /\ e_status' = compare_editions(e_csv_edition, e_api_edition)
  /\ e_pc' = "done"
  /\ UNCHANGED <<e_csv_edition, e_api_edition>>
  /\ UNCHANGED <<normVars, rulesVars, valVars, repVars, appVars>>

EditionNext == CompareEditions

(***************************************************************************)
(* normalize_edition as a function of its argument.                        *)
(***************************************************************************)
\* str.upper() on one character
UpperChar(c) ==
  IF \E i \in 1..Len(LowerChars) : LowerChars[i] = c
  THEN UpperChars[CHOOSE i \in 1..Len(LowerChars) : LowerChars[i] = c]
  ELSE c

\* str.upper()
Upper(s) == [i \in 1..Len(s) |-> UpperChar(s[i])]

\* str.capitalize(): first character upper case, the rest lower case
Capitalize(s) == [i \in 1..Len(s) |-> IF i = 1 THEN UpperChar(s[i]) ELSE LowerChar(s[i])]

\* the ways an ordinal is typed: lower case, upper case, capitalized, each
\* also with a blank before and after
Typed(word) ==
  LET cased == {word, Upper(word), Capitalize(word)}
  IN  cased \cup {<<" ">> \o w \o <<" ">> : w \in cased}

\* the keys of word_to_num, lines 32-46
OrdinalWords == {word_to_num[k][1] : k \in 1..Len(word_to_num)}

\* other edition strings: None, '', ' ', 'Revised', 'Rev.', '21', 'ed 7',
\* 'x', 'Unabridged '
OtherEditions ==
  { None, <<>>, <<" ">>, <<"R","e","v","i","s","e","d">>, <<"R","e","v",".">>,
    <<"2","1">>, <<"e","d"," ","7">>, <<"x">>,
    <<"U","n","a","b","r","i","d","g","e","d"," ">> }

\* the arguments normalize_edition is called with
NormalizeInputs == UNION {Typed(w) : w \in OrdinalWords} \cup OtherEditions

NormalizeInit ==
  /\ n_pc = "call"
  /\ n_edition_str \in NormalizeInputs
  /\ n_result = None
  /\ n_again = None

NormalizeIdle ==
  /\ n_pc = "off"
  /\ n_edition_str = None
  /\ n_result = None
  /\ n_again = None

\* normalize_edition(edition_str)
NormalizeEdition ==
  /\ n_pc = "call"
  /\ n_result' = normalize_edition(n_edition_str)
  /\ n_pc' = "returned"
  /\ UNCHANGED <<n_edition_str, n_again>>
  /\ UNCHANGED <<edVars, rulesVars, valVars, repVars, appVars>>

\* normalize_edition applied to the token it returned
NormalizeAgain ==
  /\ n_pc = "returned"
  /\ n_again' = normalize_edition(n_result)
  /\ n_pc' = "returned again"
  /\ UNCHANGED <<n_edition_str, n_result>>
  /\ UNCHANGED <<edVars, rulesVars, valVars, repVars, appVars>>

NormalizeNext ==
  \/ NormalizeEdition
  \/ NormalizeAgain

(***************************************************************************)
(* Validation mode: main and validate_book.                                *)
(***************************************************************************)
\* rows of the input CSV: Edition and ISBN as typed, 'Google VolumeID' as
\* typed.  Editions '2nd', '3', ' '; ISBNs '1', ''; ids '', ' ', 'v'.
InputRows ==
  { [Edition |-> ed, ISBN |-> <<"1">>, VolumeID |-> id] :
        ed \in { <<"2","n","d">>, <<"3">> },
        id \in { <<>>, <<" ">>, <<"v">> } }
  \cup
  { [Edition |-> <<" ">>, ISBN |-> <<"1">>, VolumeID |-> <<"v">>],
    [Edition |-> <<"2","n","d">>, ISBN |-> <<>>, VolumeID |-> <<>>] }

SeqsUpTo(S, n) == UNION { [1..k -> S] : k \in 0..n }

\* main, lines 691-694: keep the rows with both Edition and ISBN
HasEditionAndISBN(b) == Strip(b.Edition) # <<>> /\ Strip(b.ISBN) # <<>>

\* books_to_check[:args.limit] when args.limit is given (0 stands for no limit)
ApplyLimit(bs, limit) ==
  IF limit # 0 THEN SubSeq(bs, 1, IF limit < Len(bs) THEN limit ELSE Len(bs))
  ELSE bs

\* api_data: a metadata record, or None
NoData == [found |-> FALSE, edition |-> None]

Record(ed) == [found |-> TRUE, edition |-> ed]

\* What one fetch can meet on the network: a parsed response, a 404 (or a
\* body without a record), another HTTP error status, a URLError.
FetchKinds == {"ok", "http404", "httperror", "urlerror"}

\* The edition extract_edition_from_text derives from the title, subtitle
\* and description of a Google Books volume: None, '2', '3' or 'revised'.
GoogleEditions == { None, <<"2">>, <<"3">>, REVISED }

GoogleResponses ==
  { [kind |-> k, edition |-> None] : k \in FetchKinds \ {"ok"} }
  \cup { [kind |-> "ok", edition |-> ed] : ed \in GoogleEditions }

\* fetch_google_books_by_volumeid: the value returned, or the exception raised
fetch_google_books_by_volumeid(resp) ==
  IF resp.kind = "ok" THEN [raised |-> FALSE, ret |-> Record(resp.edition)]
  ELSE IF resp.kind = "http404" THEN [raised |-> FALSE, ret |-> NoData]
  ELSE IF resp.kind = "httperror" THEN [raised |-> TRUE, ret |-> NoData]
  ELSE [raised |-> FALSE, ret |-> NoData]

\* An Open Library edition document: its edition_name (None when the key is
\* absent) and the edition extract_edition_from_text derives from its title.
\* edition_name is absent, '2nd', 'Rev.' or '3'.
OpenLibraryDocs ==
  { [edition_name |-> en, title_edition |-> te] :
        en \in { None, <<"2","n","d">>, <<"R","e","v",".">>, <<"3">> },
        te \in { None, <<"2">> } }

OpenLibraryResponses ==
  { [kind |-> k, doc |-> [edition_name |-> None, title_edition |-> None]] :
        k \in FetchKinds \ {"ok"} }
  \cup { [kind |-> "ok", doc |-> d] : d \in OpenLibraryDocs }

\* parse_open_library_response, the edition of the record
parse_open_library_response(doc) ==
  LET edition == IF doc.edition_name # None
                 THEN normalize_edition(doc.edition_name) ELSE None
  IN  Record(IF IsFalsy(edition) THEN doc.title_edition ELSE edition)

\* fetch_open_library_by_isbn: the value returned, or the exception raised
fetch_open_library_by_isbn(resp) ==
  IF resp.kind = "ok"
  THEN [raised |-> FALSE, ret |-> parse_open_library_response(resp.doc)]
  ELSE IF resp.kind = "http404" THEN [raised |-> FALSE, ret |-> NoData]
  ELSE IF resp.kind = "httperror" THEN [raised |-> TRUE, ret |-> NoData]
  ELSE [raised |-> FALSE, ret |-> NoData]

\* validate_book, lines 235-246
InitialResult(book) ==
  [ CSV_Edition  |-> book.Edition,
    CSV_ISBN     |-> book.ISBN,
    API_Edition  |-> <<>>,
    Source       |-> "",
    Match_Status |-> "not-found" ]

NoResult ==
  [ CSV_Edition  |-> <<>>,
    CSV_ISBN     |-> <<>>,
    API_Edition  |-> <<>>,
    Source       |-> "",
    Match_Status |-> "" ]

NotWritten == <<"not written">>

ValidateInit ==
  /\ v_pc = "start"
  /\ v_entry \in {"main", "call"}
  /\ v_dry_run \in BOOLEAN
  /\ books_to_check = <<>>
  /\ v_i = 0
  /\ v_api_data = NoData
  /\ v_result = NoResult
  /\ v_calls = <<>>
  /\ results = <<>>
  /\ output_file = NotWritten
  /\ v_sleeps = 0
  /\ v_exc = ""

ValidateIdle ==
  /\ v_pc = "off"
  /\ v_entry = "main"
  /\ v_dry_run = FALSE
  /\ books_to_check = <<>>
  /\ v_i = 0
  /\ v_api_data = NoData
  /\ v_result = NoResult
  /\ v_calls = <<>>
  /\ results = <<>>
  /\ output_file = NotWritten
  /\ v_sleeps = 0
  /\ v_exc = ""

\* main, lines 686-713: read and filter the rows, apply --limit; with
\* --dry-run main lists the books and returns.  v_dry_run is args.dry_run.
MainRead ==
  /\ v_pc = "start"
  /\ v_entry = "main"
  /\ \E rows \in SeqsUpTo(InputRows, MaxBooks), limit \in 0..MaxBooks :
       books_to_check' = ApplyLimit(SelectSeq(rows, HasEditionAndISBN), limit)
  /\ IF v_dry_run
     THEN v_pc' = "done" /\ v_i' = v_i
     ELSE IF books_to_check' = <<>>
          THEN v_pc' = "write" /\ v_i' = v_i
          ELSE v_pc' = "validate_book" /\ v_i' = 1
  /\ UNCHANGED <<v_entry, v_dry_run, v_api_data, v_result, v_calls, results,
                 output_file, v_sleeps, v_exc>>
  /\ UNCHANGED <<normVars, rulesVars, edVars, repVars, appVars>>

\* validate_book(book, dry_run) called on one book by another caller
CallValidateBook ==
  /\ v_pc = "start"
  /\ v_entry = "call"
  /\ \E book \in InputRows : books_to_check' = <<book>>
  /\ v_i' = 1
  /\ v_pc' = "validate_book"
  /\ UNCHANGED <<v_entry, v_dry_run, v_api_data, v_result, v_calls, results,
                 output_file, v_sleeps, v_exc>>
  /\ UNCHANGED <<normVars, rulesVars, edVars, repVars, appVars>>

\* the return of validate_book into its caller: main appends the result
\* (line 720) and sleeps unless this was the last book (lines 727-728)
ReturnResult(result) ==
  /\ results' = Append(results, result)
  /\ v_result' = result
  /\ v_pc' = IF v_entry = "call" THEN "done"
             ELSE IF v_i < Len(books_to_check) THEN "sleep"
             ELSE "write"

\* validate_book without the test of dry_run at lines 248-250
ValidateBookBegin_no_dry_run ==
  /\ v_pc = "validate_book"
  /\ LET book      == books_to_check[v_i]
         volume_id == Strip(book.VolumeID)
     IN  /\ v_result' = InitialResult(book)
         /\ v_api_data' = NoData
         /\ v_pc' = IF volume_id # <<>> THEN "fetch_google"
                    ELSE "fetch_openlibrary"
         /\ UNCHANGED results
  /\ v_calls' = <<>>
  /\ UNCHANGED <<v_entry, v_dry_run, books_to_check, v_i, output_file,
                 v_sleeps, v_exc>>
  /\ UNCHANGED <<normVars, rulesVars, edVars, repVars, appVars>>

\* validate_book, lines 229-254: build the result, return at once on dry_run,
\* otherwise decide where to fetch first
ValidateBookBegin ==
  /\ v_pc = "validate_book"
  /\ LET book      == books_to_check[v_i]
         volume_id == Strip(book.VolumeID)
     IN  IF v_dry_run
         THEN /\ ReturnResult([InitialResult(book) EXCEPT !.Match_Status = "dry-run"])
              /\ UNCHANGED <<v_api_data>>
         ELSE /\ v_result' = InitialResult(book)
              /\ v_api_data' = NoData
              /\ v_pc' = IF volume_id # <<>> THEN "fetch_google"
                         ELSE "fetch_openlibrary"
              /\ UNCHANGED results
  /\ v_calls' = <<>>
  /\ UNCHANGED <<v_entry, v_dry_run, books_to_check, v_i, output_file,
                 v_sleeps, v_exc>>
  /\ UNCHANGED <<normVars, rulesVars, edVars, repVars, appVars>>

\* how a call ended, as recorded in v_calls
Outcome(r) == IF r.raised THEN "raise" ELSE IF r.ret.found THEN "record" ELSE "None"

\* validate_book without the test of line 264: the fallback is always fetched
NeedsOpenLibrary_always(api_data) == TRUE

\* validate_book, line 264: the fallback is fetched  if not api_data
NeedsOpenLibrary(api_data) == ~api_data.found

\* validate_book, lines 254-261: fetch from Google Books by volume id.  An
\* HTTPError other than 404 is re-raised by the fetch (line 112); neither
\* validate_book nor main catches it.
FetchGoogle ==
  /\ v_pc = "fetch_google"
  /\ \E resp \in GoogleResponses :
       LET r == fetch_google_books_by_volumeid(resp)
       IN  /\ v_calls' = Append(v_calls,
                           [fn |-> "fetch_google_books_by_volumeid", ret |-> Outcome(r),
                            edition |-> r.ret.edition])
           /\ IF r.raised
              THEN /\ v_pc' = "crashed"
                   /\ v_exc' = "HTTPError"
                   /\ UNCHANGED <<v_api_data, v_result>>
              ELSE /\ v_api_data' = r.ret
                   /\ v_result' = IF r.ret.found
                                  THEN [v_result EXCEPT !.Source = "google"]
                                  ELSE v_result
                   /\ v_pc' = IF NeedsOpenLibrary(r.ret) THEN "fetch_openlibrary"
                              ELSE "process"
                   /\ UNCHANGED v_exc
  /\ UNCHANGED <<v_entry, v_dry_run, books_to_check, v_i, results,
                 output_file, v_sleeps>>
  /\ UNCHANGED <<normVars, rulesVars, edVars, repVars, appVars>>

\* validate_book, lines 264-271: fetch from Open Library by ISBN
FetchOpenLibrary ==
  /\ v_pc = "fetch_openlibrary"
  /\ \E resp \in OpenLibraryResponses :
       LET r == fetch_open_library_by_isbn(resp)
       IN  /\ v_calls' = Append(v_calls,
                           [fn |-> "fetch_open_library_by_isbn", ret |-> Outcome(r),
                            edition |-> r.ret.edition])
           /\ IF r.raised
              THEN /\ v_pc' = "crashed"
                   /\ v_exc' = "HTTPError"
                   /\ UNCHANGED <<v_api_data, v_result>>
              ELSE /\ v_api_data' = r.ret
                   /\ v_result' = IF r.ret.found
                                  THEN [v_result EXCEPT !.Source = "openlibrary"]
                                  ELSE v_result
                   /\ v_pc' = "process"
                   /\ UNCHANGED v_exc
  /\ UNCHANGED <<v_entry, v_dry_run, books_to_check, v_i, results,
                 output_file, v_sleeps>>
  /\ UNCHANGED <<normVars, rulesVars, edVars, repVars, appVars>>

\* validate_book, lines 274-281: fill in the fetched fields, compare, return
ProcessApiData ==
  /\ v_pc = "process"
  /\ ReturnResult(
       IF v_api_data.found
       THEN [v_result EXCEPT
               !.API_Edition  = IF IsFalsy(v_api_data.edition) THEN <<>>
                                ELSE v_api_data.edition,
               !.Match_Status = compare_editions(v_result.CSV_Edition,
                                                 v_api_data.edition)]
       ELSE v_result)
  /\ UNCHANGED <<v_entry, v_dry_run, books_to_check, v_i, v_api_data, v_calls,
                 output_file, v_sleeps, v_exc>>
  /\ UNCHANGED <<normVars, rulesVars, edVars, repVars, appVars>>

\* main, lines 727-728 and the next iteration of the loop at line 715
Sleep ==
  /\ v_pc = "sleep"
  /\ v_sleeps' = v_sleeps + 1
  /\ v_i' = v_i + 1
  /\ v_pc' = "validate_book"
  /\ UNCHANGED <<v_entry, v_dry_run, books_to_check, v_api_data, v_result,
                 v_calls, results, output_file, v_exc>>
  /\ UNCHANGED <<normVars, rulesVars, edVars, repVars, appVars>>

\* main, lines 738-741: write the results
MainWrite ==
  /\ v_pc = "write"
  /\ output_file' = results
  /\ v_pc' = "summary"
  /\ UNCHANGED <<v_entry, v_dry_run, books_to_check, v_i, v_api_data,
                 v_result, v_calls, results, v_sleeps, v_exc>>
  /\ UNCHANGED <<normVars, rulesVars, edVars, repVars, appVars>>

\* main, lines 745-757: the summary divides by the number of results
MainSummary ==
  /\ v_pc = "summary"
  /\ IF Len(results) = 0
     THEN v_pc' = "crashed" /\ v_exc' = "ZeroDivisionError"
     ELSE v_pc' = "done" /\ UNCHANGED v_exc
  /\ UNCHANGED <<v_entry, v_dry_run, books_to_check, v_i, v_api_data,
                 v_result, v_calls, results, output_file, v_sleeps>>
  /\ UNCHANGED <<normVars, rulesVars, edVars, repVars, appVars>>

ValidateNext ==
  \/ MainRead
  \/ CallValidateBook
  \/ ValidateBookBegin
  \/ FetchGoogle
  \/ FetchOpenLibrary
  \/ ProcessApiData
  \/ Sleep
  \/ MainWrite
  \/ MainSummary

(***************************************************************************)
(* Repair mode: repair_mismatches, search_correct_isbn and                 *)
(* search_correct_isbn_openlibrary.                                        *)
(***************************************************************************)
\* the slice bounds of the three loops
GoogleItemLimit == 10

OpenLibraryDocLimit == 5

OpenLibraryEditionLimit == 10

\* xs[:n]
Take(xs, n) == SubSeq(xs, 1, IF n < Len(xs) THEN n ELSE Len(xs))

\* the title every row of the results file carries: 'Ab'
SearchTitle == <<"A","b">>

\* the mismatch row the searches are explored for: claimed edition '2nd'
MismatchRow ==
  [Title |-> SearchTitle, CSV_Edition |-> <<"2","n","d">>, CSV_ISBN |-> "c1",
   Match_Status |-> "mismatch"]

\* rows of the results file written by validation mode: two mismatch rows
\* (claimed editions '2nd' and '3') and rows with the other verdicts
ResultRows ==
  { MismatchRow,
    [Title |-> SearchTitle, CSV_Edition |-> <<"3">>, CSV_ISBN |-> "c2",
     Match_Status |-> "mismatch"],
    [Title |-> SearchTitle, CSV_Edition |-> <<"3">>, CSV_ISBN |-> "c6",
     Match_Status |-> "dry-run"],
    [Title |-> SearchTitle, CSV_Edition |-> <<"2","n","d">>, CSV_ISBN |-> "c3",
     Match_Status |-> "match"],
    [Title |-> SearchTitle, CSV_Edition |-> <<"3">>, CSV_ISBN |-> "c4",
     Match_Status |-> "uncertain"],
    [Title |-> SearchTitle, CSV_Edition |-> <<"2","n","d">>, CSV_ISBN |-> "c5",
     Match_Status |-> "not-found"] }

\* repair_mismatches with 'uncertain' rows repaired too
IsMismatch_or_uncertain(row) == row.Match_Status \in {"mismatch", "uncertain"}

\* repair_mismatches, line 470
IsMismatch(row) == row.Match_Status = "mismatch"

\* the results files a run can start from
ResultsFiles(draw) ==
  IF draw = "searches" THEN SeqsUpTo({MismatchRow}, MaxRows)
  ELSE SeqsUpTo(ResultRows, MaxBatchRows)

\* the dict both searches start from (lines 289-294, 382-387)
EmptySuggestion ==
  [suggested_isbn |-> "", source |-> "", confidence |-> "low", notes |-> ""]

\* Items of a Google Books search response: the volume's title ('' when the
\* key is absent), the edition extract_edition_from_text derives from its
\* title, subtitle and description, and its ISBN_10/ISBN_13 identifiers.
\* Titles 'ABc', 'a', 'x'.
ItemExact    == [title |-> <<"A","B","c">>, edition |-> <<"2">>, isbns |-> <<"i1">>]

ItemOther    == [title |-> <<"A","B","c">>, edition |-> <<"3">>, isbns |-> <<"i2", "i3">>]

ItemNoEd     == [title |-> <<"a">>, edition |-> None, isbns |-> <<"i4">>]

ItemNoIsbn   == [title |-> <<"A","B","c">>, edition |-> <<"2">>, isbns |-> <<>>]

ItemNoTitle  == [title |-> <<"x">>, edition |-> <<"2">>, isbns |-> <<"i5">>]

GoogleItems == {ItemExact, ItemOther, ItemNoEd, ItemNoIsbn, ItemNoTitle}

\* responses longer than the slice of line 322: ten items, then one more
LongItemLists ==
  { [k \in 1..(GoogleItemLimit + 1) |-> IF k <= GoogleItemLimit THEN f ELSE c] :
        f \in {ItemNoTitle, ItemNoEd}, c \in {ItemExact, ItemOther} }

\* what the search request can meet: an HTTPError or URLError, or a body
\* whose 'items' are the given list (empty also when the key is absent)
GoogleSearchResponses ==
  { [kind |-> "error", items |-> <<>>] }
  \cup { [kind |-> "ok", items |-> xs] :
           xs \in SeqsUpTo(GoogleItems, MaxCand) \cup LongItemLists }

\* the responses drawn when rows of every kind are drawn: an error, an item
\* with edition '2', an item without edition
FewGoogleSearchResponses ==
  { [kind |-> "error", items |-> <<>>],
    [kind |-> "ok", items |-> <<ItemExact>>],
    [kind |-> "ok", items |-> <<ItemNoEd>>] }

GoogleSearchResponsesDrawn(draw) ==
  IF draw = "searches" THEN GoogleSearchResponses ELSE FewGoogleSearchResponses

\* search_correct_isbn, lines 334-336
TitleMatch(title, item_title) ==
  LET api_title    == Lower(item_title)
      search_title == Lower(title)
  IN  Contains(search_title, api_title) \/ Contains(api_title, search_title)

\* the body of the loop of search_correct_isbn without the return of line 354
GoogleCandidate_no_return(result, item, title, target_edition) ==
  LET title_match == TitleMatch(title, item.title)
      found(conf, note) ==
        [suggested_isbn |-> item.isbns[1], source |-> "google",
         confidence |-> conf, notes |-> note]
  IN  IF item.isbns = <<>> THEN [result |-> result, stop |-> FALSE]
      ELSE IF item.edition = target_edition /\ title_match
      THEN [result |-> found("high", "Exact match"), stop |-> FALSE]
      ELSE IF title_match /\ ~IsFalsy(item.edition)
      THEN [result |-> IF result.suggested_isbn = ""
                       THEN found("medium", "Title match with edition")
                       ELSE result,
            stop |-> FALSE]
      ELSE IF title_match
      THEN [result |-> IF result.suggested_isbn = ""
                       THEN found("low", "Title match but edition unclear")
                       ELSE result,
            stop |-> FALSE]
      ELSE [result |-> result, stop |-> FALSE]

\* the body of the loop of search_correct_isbn without line 351: an exact
\* match does not set the source
GoogleCandidate_no_source(result, item, title, target_edition) ==
  LET title_match == TitleMatch(title, item.title)
      found(conf, note) ==
        [suggested_isbn |-> item.isbns[1], source |-> "google",
         confidence |-> conf, notes |-> note]
  IN  IF item.isbns = <<>> THEN [result |-> result, stop |-> FALSE]
      ELSE IF item.edition = target_edition /\ title_match
      THEN [result |-> [found("high", "Exact match") EXCEPT !.source = result.source],
            stop |-> TRUE]
      ELSE IF title_match /\ ~IsFalsy(item.edition)
      THEN [result |-> IF result.suggested_isbn = ""
                       THEN found("medium", "Title match with edition")
                       ELSE result,
            stop |-> FALSE]
      ELSE IF title_match
      THEN [result |-> IF result.suggested_isbn = ""
                       THEN found("low", "Title match but edition unclear")
                       ELSE result,
            stop |-> FALSE]
      ELSE [result |-> result, stop |-> FALSE]

\* the body of the loop of search_correct_isbn without the test of line 356:
\* a 'medium' candidate replaces what was recorded before
GoogleCandidate_medium_replaces(result, item, title, target_edition) ==
  LET title_match == TitleMatch(title, item.title)
      found(conf, note) ==
        [suggested_isbn |-> item.isbns[1], source |-> "google",
         confidence |-> conf, notes |-> note]
  IN  IF item.isbns = <<>> THEN [result |-> result, stop |-> FALSE]
      ELSE IF item.edition = target_edition /\ title_match
      THEN [result |-> found("high", "Exact match"), stop |-> TRUE]
      ELSE IF title_match /\ ~IsFalsy(item.edition)
      THEN [result |-> found("medium", "Title match with edition"),
            stop |-> FALSE]
      ELSE IF title_match
      THEN [result |-> IF result.suggested_isbn = ""
                       THEN found("low", "Title match but edition unclear")
                       ELSE result,
            stop |-> FALSE]
      ELSE [result |-> result, stop |-> FALSE]

\* search_correct_isbn, lines 323-366: the body of the loop for one item;
\* stop is the return of line 354
GoogleCandidate(result, item, title, target_edition) ==
  LET title_match == TitleMatch(title, item.title)
      found(conf, note) ==
        [suggested_isbn |-> item.isbns[1], source |-> "google",
         confidence |-> conf, notes |-> note]
  IN  IF item.isbns = <<>> THEN [result |-> result, stop |-> FALSE]
      ELSE IF item.edition = target_edition /\ title_match
      THEN [result |-> found("high", "Exact match"), stop |-> TRUE]
      ELSE IF title_match /\ ~IsFalsy(item.edition)
      THEN [result |-> IF result.suggested_isbn = ""
                       THEN found("medium", "Title match with edition")
                       ELSE result,
            stop |-> FALSE]
      ELSE IF title_match
      THEN [result |-> IF result.suggested_isbn = ""
                       THEN found("low", "Title match but edition unclear")
                       ELSE result,
            stop |-> FALSE]
      ELSE [result |-> result, stop |-> FALSE]

\* the searches without the test after their loops
NoteIfNothingFound_never(result, note) == result

\* lines 368-369 and 452-453: after the loop, a result without an ISBN gets
\* the note that nothing matched
NoteIfNothingFound(result, note) ==
  IF result.suggested_isbn = "" THEN [result EXCEPT !.notes = note] ELSE result

\* An edition entry of an Open Library work: its edition_name (None when the
\* key is absent) and its isbn_13 + isbn_10 lists.
EntryExact  == [edition_name |-> <<"2","n","d">>, isbns |-> <<"o1">>]

EntryOther  == [edition_name |-> <<"3">>, isbns |-> <<"o2", "o3">>]

EntryNoEd   == [edition_name |-> None, isbns |-> <<"o4">>]

EntryNoIsbn == [edition_name |-> <<"2","n","d">>, isbns |-> <<>>]

OpenLibraryEntries == {EntryExact, EntryOther, EntryNoEd, EntryNoIsbn}

\* a response longer than the slice of line 421
LongEntryLists ==
  { [k \in 1..(OpenLibraryEditionLimit + 1) |->
        IF k <= OpenLibraryEditionLimit THEN EntryNoEd ELSE EntryExact] }

\* the editions lookup of one work: an HTTPError or URLError, or entries
EditionsResponses ==
  { [kind |-> "error", entries |-> <<>>] }
  \cup { [kind |-> "ok", entries |-> xs] :
           xs \in SeqsUpTo(OpenLibraryEntries, MaxEntries) \cup LongEntryLists }

\* docs of an Open Library search response: does the doc have a 'key'
OpenLibraryWorks == { [has_key |-> TRUE], [has_key |-> FALSE] }

\* a response longer than the slice of line 408
LongDocLists == { [k \in 1..(OpenLibraryDocLimit + 1) |-> [has_key |-> TRUE]] }

OpenLibrarySearchResponses ==
  { [kind |-> "error", docs |-> <<>>] }
  \cup { [kind |-> "ok", docs |-> xs] :
           xs \in SeqsUpTo(OpenLibraryWorks, MaxWorks) \cup LongDocLists }

\* the responses drawn when rows of every kind are drawn
FewEditionsResponses ==
  { [kind |-> "error", entries |-> <<>>],
    [kind |-> "ok", entries |-> <<EntryExact>>] }

EditionsResponsesDrawn(draw) ==
  IF draw = "searches" THEN EditionsResponses ELSE FewEditionsResponses

FewOpenLibrarySearchResponses ==
  { [kind |-> "error", docs |-> <<>>],
    [kind |-> "ok", docs |-> <<[has_key |-> TRUE]>>] }

OpenLibrarySearchResponsesDrawn(draw) ==
  IF draw = "searches" THEN OpenLibrarySearchResponses
  ELSE FewOpenLibrarySearchResponses

\* search_correct_isbn_openlibrary, lines 422-447: the body of the inner
\* loop for one edition entry; stop is the return of line 442
OpenLibraryCandidate(result, ed, target_edition) ==
  LET api_edition == IF ed.edition_name # None
                     THEN normalize_edition(ed.edition_name) ELSE None
      found(conf, note) ==
        [suggested_isbn |-> ed.isbns[1], source |-> "openlibrary",
         confidence |-> conf, notes |-> note]
  IN  IF ed.isbns = <<>> THEN [result |-> result, stop |-> FALSE]
      ELSE IF api_edition = target_edition
      THEN [result |-> found("high", "Exact match"), stop |-> TRUE]
      ELSE IF ~IsFalsy(api_edition) /\ result.suggested_isbn = ""
      THEN [result |-> found("medium", "Found edition"), stop |-> FALSE]
      ELSE [result |-> result, stop |-> FALSE]

\* the inner loop of line 421 over the given entries
RECURSIVE OpenLibraryEditions(_, _, _)
OpenLibraryEditions(result, entries, target_edition) ==
  IF entries = <<>> THEN [result |-> result, stop |-> FALSE]
  ELSE LET r == OpenLibraryCandidate(result, Head(entries), target_edition)
       IN  IF r.stop THEN r
           ELSE OpenLibraryEditions(r.result, Tail(entries), target_edition)

\* repair_mismatches with the fallback queried whenever the primary is not 'high'
NeedsFallback_not_high(result) == result.confidence # "high"

\* repair_mismatches with the fallback queried for every book
NeedsFallback_always(result) == TRUE

\* repair_mismatches, line 491
NeedsFallback(result) ==
  result.confidence = "low" \/ result.suggested_isbn = ""

\* repair_mismatches with the fallback result always taken
UseOpenLibrary_always(result, ol) == TRUE

\* repair_mismatches with any fallback suggestion replacing the primary one
UseOpenLibrary_any(result, ol) == ol.confidence = "high" \/ ol.suggested_isbn # ""

\* repair_mismatches, line 500
UseOpenLibrary(result, ol) ==
  ol.confidence = "high" \/ (ol.suggested_isbn # "" /\ result.suggested_isbn = "")

RepairInit(draw) ==
  /\ r_pc = "read"
  /\ r_draw = draw
  /\ results_file \in ResultsFiles(draw)
  /\ r_searched = <<>>
  /\ mismatches = <<>>
  /\ r_i = 0
  /\ r_result = EmptySuggestion
  /\ r_calls = <<>>
  /\ g_items = <<>>
  /\ g_idx = 0
  /\ g_result = EmptySuggestion
  /\ ol_docs = <<>>
  /\ ol_idx = 0
  /\ ol_result = EmptySuggestion
  /\ suggestions = <<>>
  /\ repair_output = NotWritten
  /\ r_sleeps = 0

RepairIdle ==
  /\ r_pc = "off"
  /\ r_draw = "searches"
  /\ results_file = <<>>
  /\ r_searched = <<>>
  /\ mismatches = <<>>
  /\ r_i = 0
  /\ r_result = EmptySuggestion
  /\ r_calls = <<>>
  /\ g_items = <<>>
  /\ g_idx = 0
  /\ g_result = EmptySuggestion
  /\ ol_docs = <<>>
  /\ ol_idx = 0
  /\ ol_result = EmptySuggestion
  /\ suggestions = <<>>
  /\ repair_output = NotWritten
  /\ r_sleeps = 0

\* repair_mismatches, lines 468-476: read the results file, keep the mismatches
RepairRead ==
  /\ r_pc = "read"
  /\ mismatches' = SelectSeq(results_file, IsMismatch)
  /\ IF mismatches' = <<>>
     THEN r_pc' = "write" /\ r_i' = r_i
     ELSE r_pc' = "google" /\ r_i' = 1
  /\ UNCHANGED <<r_result, r_calls, g_items, g_idx, g_result, ol_docs, ol_idx,
                 ol_result, suggestions, repair_output, r_sleeps>>
  /\ UNCHANGED <<r_draw, results_file, r_searched>>
  /\ UNCHANGED <<normVars, rulesVars, edVars, valVars, appVars>>

\* search_correct_isbn, lines 289-321: the request.  An HTTPError or URLError
\* and a response without items both return at once.
GoogleSearch ==
  /\ r_pc = "google"
  /\ r_calls' = <<"search_correct_isbn">>
  /\ r_searched' = Append(r_searched, mismatches[r_i])
  /\ ol_result' = EmptySuggestion
  /\ ol_docs' = <<>>
  /\ ol_idx' = 0
  /\ \E resp \in GoogleSearchResponsesDrawn(r_draw) :
       IF resp.kind = "error"
       THEN /\ g_result' = [EmptySuggestion EXCEPT !.notes = "Error searching Google Books"]
            /\ g_items' = <<>>
            /\ g_idx' = 0
            /\ r_pc' = "after_google"
       ELSE IF resp.items = <<>>
       THEN /\ g_result' = [EmptySuggestion EXCEPT !.notes = "No results found in Google Books"]
            /\ g_items' = <<>>
            /\ g_idx' = 0
            /\ r_pc' = "after_google"
       ELSE /\ g_result' = EmptySuggestion
            /\ g_items' = resp.items
            /\ g_idx' = 1
            /\ r_pc' = "g_loop"
  /\ UNCHANGED <<mismatches, r_i, r_result, suggestions, repair_output, r_sleeps>>
  /\ UNCHANGED <<r_draw, results_file>>
  /\ UNCHANGED <<normVars, rulesVars, edVars, valVars, appVars>>

\* search_correct_isbn, lines 322-374: one iteration of the loop over
\* data['items'][:10]; the function returns on an exact match and after the
\* last item
GoogleLoop ==
  /\ r_pc = "g_loop"
  /\ LET row    == mismatches[r_i]
         target == normalize_edition(row.CSV_Edition)
         items  == Take(g_items, GoogleItemLimit)
         r      == GoogleCandidate(g_result, items[g_idx], row.Title, target)
     IN  IF r.stop
         THEN /\ g_result' = r.result
              /\ r_pc' = "after_google"
              /\ UNCHANGED g_idx
         ELSE IF g_idx < Len(items)
         THEN /\ g_result' = r.result
              /\ g_idx' = g_idx + 1
              /\ UNCHANGED r_pc
         ELSE /\ g_result' = NoteIfNothingFound(r.result,
                                "Found results but no edition match")
              /\ r_pc' = "after_google"
              /\ UNCHANGED g_idx
  /\ UNCHANGED <<mismatches, r_i, r_result, r_calls, g_items, ol_docs, ol_idx,
                 ol_result, suggestions, repair_output, r_sleeps>>
  /\ UNCHANGED <<r_draw, results_file, r_searched>>
  /\ UNCHANGED <<normVars, rulesVars, edVars, valVars, appVars>>

\* repair_mismatches, lines 483-491: take the primary result, decide on the
\* fallback
AfterGoogle ==
  /\ r_pc = "after_google"
  /\ r_result' = g_result
  /\ r_pc' = IF NeedsFallback(g_result) THEN "openlibrary" ELSE "emit"
  /\ g_items' = <<>>
  /\ g_idx' = 0
  /\ UNCHANGED <<mismatches, r_i, r_calls, g_result, ol_docs, ol_idx,
                 ol_result, suggestions, repair_output, r_sleeps>>
  /\ UNCHANGED <<r_draw, results_file, r_searched>>
  /\ UNCHANGED <<normVars, rulesVars, edVars, valVars, appVars>>

\* search_correct_isbn_openlibrary, lines 382-406: the search request
OpenLibrarySearch ==
  /\ r_pc = "openlibrary"
  /\ r_calls' = Append(r_calls, "search_correct_isbn_openlibrary")
  /\ \E resp \in OpenLibrarySearchResponsesDrawn(r_draw) :
       IF resp.kind = "error"
       THEN /\ ol_result' = [EmptySuggestion EXCEPT !.notes = "Error searching Open Library"]
            /\ ol_docs' = <<>>
            /\ ol_idx' = 0
            /\ r_pc' = "after_openlibrary"
       ELSE IF resp.docs = <<>>
       THEN /\ ol_result' = [EmptySuggestion EXCEPT !.notes = "No results found in Open Library"]
            /\ ol_docs' = <<>>
            /\ ol_idx' = 0
            /\ r_pc' = "after_openlibrary"
       ELSE /\ ol_result' = EmptySuggestion
            /\ ol_docs' = resp.docs
            /\ ol_idx' = 1
            /\ r_pc' = "ol_loop"
  /\ UNCHANGED <<mismatches, r_i, r_result, g_items, g_idx, g_result,
                 suggestions, repair_output, r_sleeps>>
  /\ UNCHANGED <<r_draw, results_file, r_searched>>
  /\ UNCHANGED <<normVars, rulesVars, edVars, valVars, appVars>>

\* search_correct_isbn_openlibrary, lines 408-458: one iteration of the loop
\* over data['docs'][:5]: skip a doc without key, look up the editions of
\* the work (an error skips the work), run the inner loop over
\* entries[:10]; the function returns on an exact match and after the last doc
OpenLibraryLoop ==
  /\ r_pc = "ol_loop"
  /\ LET row    == mismatches[r_i]
         target == normalize_edition(row.CSV_Edition)
         docs   == Take(ol_docs, OpenLibraryDocLimit)
         finish(r) ==
           IF r.stop
           THEN /\ ol_result' = r.result
                /\ r_pc' = "after_openlibrary"
                /\ UNCHANGED ol_idx
           ELSE IF ol_idx < Len(docs)
           THEN /\ ol_result' = r.result
                /\ ol_idx' = ol_idx + 1
                /\ UNCHANGED r_pc
           ELSE /\ ol_result' = NoteIfNothingFound(r.result,
                                   "Found work but no edition match")
                /\ r_pc' = "after_openlibrary"
                /\ UNCHANGED ol_idx
     IN  IF ~docs[ol_idx].has_key
         THEN /\ finish([result |-> ol_result, stop |-> FALSE])
              /\ UNCHANGED r_calls
         ELSE /\ r_calls' = Append(r_calls, "editions")
              /\ \E resp \in EditionsResponsesDrawn(r_draw) :
                   IF resp.kind = "error"
                   THEN finish([result |-> ol_result, stop |-> FALSE])
                   ELSE finish(OpenLibraryEditions(ol_result,
                                 Take(resp.entries, OpenLibraryEditionLimit),
                                 target))
  /\ UNCHANGED <<mismatches, r_i, r_result, g_items, g_idx, g_result, ol_docs,
                 suggestions, repair_output, r_sleeps>>
  /\ UNCHANGED <<r_draw, results_file, r_searched>>
  /\ UNCHANGED <<normVars, rulesVars, edVars, valVars, appVars>>

\* repair_mismatches, lines 499-501: use the Open Library result if it is better
AfterOpenLibrary ==
  /\ r_pc = "after_openlibrary"
  /\ r_result' = IF UseOpenLibrary(r_result, ol_result) THEN ol_result ELSE r_result
  /\ r_pc' = "emit"
  /\ ol_docs' = <<>>
  /\ ol_idx' = 0
  /\ UNCHANGED <<mismatches, r_i, r_calls, g_items, g_idx, g_result,
                 ol_result, suggestions, repair_output, r_sleeps>>
  /\ UNCHANGED <<r_draw, results_file, r_searched>>
  /\ UNCHANGED <<normVars, rulesVars, edVars, valVars, appVars>>

\* repair_mismatches, lines 503-515: append the suggestion of this book
Emit ==
  /\ r_pc = "emit"
  /\ suggestions' = Append(suggestions,
       [ Title           |-> mismatches[r_i].Title,
         Current_ISBN    |-> mismatches[r_i].CSV_ISBN,
         Current_Edition |-> mismatches[r_i].CSV_Edition,
         Suggested_ISBN  |-> r_result.suggested_isbn,
         Source          |-> r_result.source,
         Confidence      |-> r_result.confidence,
         Notes           |-> r_result.notes ])
  /\ r_pc' = IF r_i < Len(mismatches) THEN "sleep" ELSE "write"
  /\ UNCHANGED <<mismatches, r_i, r_result, r_calls, g_items, g_idx, g_result,
                 ol_docs, ol_idx, ol_result, repair_output, r_sleeps>>
  /\ UNCHANGED <<r_draw, results_file, r_searched>>
  /\ UNCHANGED <<normVars, rulesVars, edVars, valVars, appVars>>

\* repair_mismatches, lines 523-524 and the next iteration at line 476
RepairSleep ==
  /\ r_pc = "sleep"
  /\ r_sleeps' = r_sleeps + 1
  /\ r_i' = r_i + 1
  /\ r_pc' = "google"
  /\ UNCHANGED <<mismatches, r_result, r_calls, g_items, g_idx, g_result,
                 ol_docs, ol_idx, ol_result, suggestions, repair_output>>
  /\ UNCHANGED <<r_draw, results_file, r_searched>>
  /\ UNCHANGED <<normVars, rulesVars, edVars, valVars, appVars>>

\* repair_mismatches, lines 527-536: write the suggestions
RepairWrite ==
  /\ r_pc = "write"
  /\ repair_output' = suggestions
  /\ r_pc' = "done"
  /\ UNCHANGED <<mismatches, r_i, r_result, r_calls, g_items, g_idx, g_result,
                 ol_docs, ol_idx, ol_result, suggestions, r_sleeps>>
  /\ UNCHANGED <<r_draw, results_file, r_searched>>
  /\ UNCHANGED <<normVars, rulesVars, edVars, valVars, appVars>>

RepairNext ==
  \/ RepairRead
  \/ GoogleSearch
  \/ GoogleLoop
  \/ AfterGoogle
  \/ OpenLibrarySearch
  \/ OpenLibraryLoop
  \/ AfterOpenLibrary
  \/ Emit
  \/ RepairSleep
  \/ RepairWrite

(***************************************************************************)
(* Apply mode: apply_repairs.                                              *)
(***************************************************************************)
\* rows of the suggestions file
SugChange  == [Title |-> "T1", Current_ISBN |-> "c1", Suggested_ISBN |-> "n1",
               Confidence |-> "high"]

SugChain   == [Title |-> "T1", Current_ISBN |-> "n1", Suggested_ISBN |-> "n2",
               Confidence |-> "high"]

SugNoIsbn  == [Title |-> "T1", Current_ISBN |-> "c1", Suggested_ISBN |-> "",
               Confidence |-> "high"]

SugMedium  == [Title |-> "T1", Current_ISBN |-> "c1", Suggested_ISBN |-> "n3",
               Confidence |-> "medium"]

SugLow     == [Title |-> "T2", Current_ISBN |-> "c1", Suggested_ISBN |-> "n3",
               Confidence |-> "low"]

SugOther   == [Title |-> "T2", Current_ISBN |-> "c2", Suggested_ISBN |-> "n1",
               Confidence |-> "high"]

SuggestionRows == {SugChange, SugChain, SugNoIsbn, SugMedium, SugLow, SugOther}

\* rows of data.csv: the two columns apply_repairs looks at and one it does not
CatalogRows ==
  { [Title |-> t, ISBN |-> i, Author |-> "a"] :
        t \in {"T1", "T2"}, i \in {"c1", "c2", "n1"} }

\* a file that does not exist
NoFile == <<"no file">>

\* a file left empty by a write that failed after the file was opened
EmptyFile == <<"empty file">>

\* apply_repairs with the test of the suggested ISBN dropped from line 561
Accepted_high_only(row) == row.Confidence = "high"

\* apply_repairs, line 561: the suggestions that are applied
Accepted(row) == row.Confidence = "high" /\ row.Suggested_ISBN # ""

\* apply_repairs with the test of the Title dropped from line 592: the
\* first row with the suggestion's Current ISBN is rewritten
ApplySuggestion_any_title(books, suggestion) ==
  LET hits == {k \in 1..Len(books) : books[k].ISBN = suggestion.Current_ISBN}
  IN  IF hits = {} THEN [books |-> books, changed |-> FALSE]
      ELSE [books   |-> [books EXCEPT ![SetMin(hits)].ISBN = suggestion.Suggested_ISBN],
            changed |-> TRUE]

\* apply_repairs without the break of line 598: every row with the
\* suggestion's Title and Current ISBN is rewritten
ApplySuggestion_every_row(books, suggestion) ==
  LET hits == {k \in 1..Len(books) :
                 /\ books[k].Title = suggestion.Title
                 /\ books[k].ISBN = suggestion.Current_ISBN}
  IN  [books   |-> [k \in 1..Len(books) |->
                      IF k \in hits
                      THEN [books[k] EXCEPT !.ISBN = suggestion.Suggested_ISBN]
                      ELSE books[k]],
       changed |-> hits # {}]

\* apply_repairs, lines 589-598: the rows after one suggestion was applied to
\* the first row with its Title and Current ISBN; changed tells whether a
\* row matched
ApplySuggestion(books, suggestion) ==
  LET hits == {k \in 1..Len(books) :
                 /\ books[k].Title = suggestion.Title
                 /\ books[k].ISBN = suggestion.Current_ISBN}
  IN  IF hits = {} THEN [books |-> books, changed |-> FALSE]
      ELSE [books   |-> [books EXCEPT ![SetMin(hits)].ISBN = suggestion.Suggested_ISBN],
            changed |-> TRUE]

ApplyInit ==
  /\ a_pc = "read_suggestions"
  /\ suggestions_file \in SeqsUpTo(SuggestionRows, MaxSugg)
  /\ data_file \in SeqsUpTo(CatalogRows, MaxCatalog)
  /\ a_catalog = data_file
  /\ backup_file = NoFile
  /\ a_suggestions = <<>>
  /\ a_books = <<>>
  /\ a_k = 0
  /\ changes_made = 0
  /\ data_writes = 0
  /\ backup_writes = 0
  /\ a_exc = ""

ApplyIdle ==
  /\ a_pc = "off"
  /\ suggestions_file = <<>>
  /\ data_file = <<>>
  /\ a_catalog = <<>>
  /\ backup_file = NoFile
  /\ a_suggestions = <<>>
  /\ a_books = <<>>
  /\ a_k = 0
  /\ changes_made = 0
  /\ data_writes = 0
  /\ backup_writes = 0
  /\ a_exc = ""

\* apply_repairs, lines 559-567: read and filter the suggestions; return if
\* none is accepted
ReadSuggestions ==
  /\ a_pc = "read_suggestions"
  /\ a_suggestions' = SelectSeq(suggestions_file, Accepted)
  /\ a_pc' = IF a_suggestions' = <<>> THEN "done" ELSE "backup"
  /\ UNCHANGED <<suggestions_file, data_file, a_catalog, backup_file, a_books,
                 a_k, changes_made, data_writes, backup_writes, a_exc>>
  /\ UNCHANGED <<normVars, rulesVars, edVars, valVars, repVars>>

\* apply_repairs with a failure of the backup write caught and ignored
WriteBackup_ignore_failure ==
  /\ a_pc = "backup"
  /\ \E outcome \in {"ok", "open fails", "write fails"} :
       IF outcome = "ok"
       THEN /\ backup_file' = data_file
            /\ backup_writes' = backup_writes + 1
       ELSE /\ backup_file' = IF outcome = "write fails" THEN EmptyFile
                              ELSE backup_file
            /\ UNCHANGED backup_writes
  /\ a_pc' = "read_data"
  /\ UNCHANGED a_exc
  /\ UNCHANGED <<suggestions_file, data_file, a_catalog, a_suggestions,
                 a_books, a_k, changes_made, data_writes>>
  /\ UNCHANGED <<normVars, rulesVars, edVars, valVars, repVars>>

\* apply_repairs, lines 569-577: copy data_file to data_file.bak.  An OSError
\* of the write leaves apply_repairs; nothing catches it.
WriteBackup ==
  /\ a_pc = "backup"
  /\ \E outcome \in {"ok", "open fails", "write fails"} :
       IF outcome = "ok"
       THEN /\ backup_file' = data_file
            /\ backup_writes' = backup_writes + 1
            /\ a_pc' = "read_data"
            /\ UNCHANGED a_exc
       ELSE /\ backup_file' = IF outcome = "write fails" THEN EmptyFile
                              ELSE backup_file
            /\ a_pc' = "crashed"
            /\ a_exc' = "OSError writing the backup"
            /\ UNCHANGED backup_writes
  /\ UNCHANGED <<suggestions_file, data_file, a_catalog, a_suggestions,
                 a_books, a_k, changes_made, data_writes>>
  /\ UNCHANGED <<normVars, rulesVars, edVars, valVars, repVars>>

\* apply_repairs, lines 579-587: read the rows of data_file
ReadData ==
  /\ a_pc = "read_data"
  /\ a_books' = data_file
  /\ changes_made' = 0
  /\ a_k' = 1
  /\ a_pc' = "apply"
  /\ UNCHANGED <<suggestions_file, data_file, a_catalog, backup_file,
                 a_suggestions, data_writes, backup_writes, a_exc>>
  /\ UNCHANGED <<normVars, rulesVars, edVars, valVars, repVars>>

\* apply_repairs, lines 588-598: one iteration of the loop over the
\* accepted suggestions
ApplyLoop ==
  /\ a_pc = "apply"
  /\ LET r == ApplySuggestion(a_books, a_suggestions[a_k])
     IN  /\ a_books' = r.books
         /\ changes_made' = IF r.changed THEN changes_made + 1 ELSE changes_made
  /\ IF a_k < Len(a_suggestions)
     THEN a_k' = a_k + 1 /\ UNCHANGED a_pc
     ELSE a_pc' = "write" /\ UNCHANGED a_k
  /\ UNCHANGED <<suggestions_file, data_file, a_catalog, backup_file,
                 a_suggestions, data_writes, backup_writes, a_exc>>
  /\ UNCHANGED <<normVars, rulesVars, edVars, valVars, repVars>>

\* apply_repairs without the test of changes_made at line 601: the rows are
\* written back whether or not any was changed
WriteData_unconditional ==
  /\ a_pc = "write"
  /\ data_file' = a_books /\ data_writes' = data_writes + 1
  /\ a_pc' = "done"
  /\ UNCHANGED <<suggestions_file, a_catalog, backup_file, a_suggestions,
                 a_books, a_k, changes_made, backup_writes, a_exc>>
  /\ UNCHANGED <<normVars, rulesVars, edVars, valVars, repVars>>

\* apply_repairs, lines 600-612: write the rows back if any was changed
WriteData ==
  /\ a_pc = "write"
  /\ IF changes_made > 0
     THEN data_file' = a_books /\ data_writes' = data_writes + 1
     ELSE UNCHANGED <<data_file, data_writes>>
  /\ a_pc' = "done"
  /\ UNCHANGED <<suggestions_file, a_catalog, backup_file, a_suggestions,
                 a_books, a_k, changes_made, backup_writes, a_exc>>
  /\ UNCHANGED <<normVars, rulesVars, edVars, valVars, repVars>>

ApplyNext ==
  \/ ReadSuggestions
  \/ WriteBackup
  \/ ReadData
  \/ ApplyLoop
  \/ WriteData

(***************************************************************************)
(* The two searches as functions of one list of candidates.                *)
(***************************************************************************)
\* the claimed edition both searches are called with: '2nd'
RulesEdition == <<"2","n","d">>

\* the loop of line 322 over the given items
RECURSIVE GoogleItemsLoop(_, _, _, _)
GoogleItemsLoop(result, items, title, target_edition) ==
  IF items = <<>> THEN [result |-> result, stop |-> FALSE]
  ELSE LET r == GoogleCandidate(result, Head(items), title, target_edition)
       IN  IF r.stop THEN r
           ELSE GoogleItemsLoop(r.result, Tail(items), title, target_edition)

\* search_correct_isbn, lines 314-374, for a response with the given items
search_correct_isbn(title, edition, items) ==
  IF items = <<>>
  THEN [EmptySuggestion EXCEPT !.notes = "No results found in Google Books"]
  ELSE LET r == GoogleItemsLoop(EmptySuggestion, Take(items, GoogleItemLimit),
                                title, normalize_edition(edition))
       IN  IF r.stop THEN r.result
           ELSE NoteIfNothingFound(r.result, "Found results but no edition match")

\* search_correct_isbn_openlibrary, lines 405-458, for a response with one
\* work whose editions lookup returns the given entries
search_correct_isbn_openlibrary(title, edition, entries) ==
  LET r == OpenLibraryEditions(EmptySuggestion,
                               Take(entries, OpenLibraryEditionLimit),
                               normalize_edition(edition))
  IN  IF r.stop THEN r.result
      ELSE NoteIfNothingFound(r.result, "Found work but no edition match")

\* a candidate as an item of a Google Books response (lines 323-343)
AsGoogleItem(c) == [title |-> c.title, edition |-> c.edition, isbns |-> c.isbns]

\* a candidate as an edition entry of an Open Library work (lines 422-432):
\* edition_name is the candidate's edition token, absent if it has none;
\* nothing of the entry's title is read
AsOpenLibraryEntry(c) == [edition_name |-> c.edition, isbns |-> c.isbns]

RulesInit ==
  /\ c_pc = "google"
  /\ c_candidates \in SeqsUpTo(GoogleItems, MaxCand)
  /\ c_google = EmptySuggestion
  /\ c_openlibrary = EmptySuggestion

RulesIdle ==
  /\ c_pc = "off"
  /\ c_candidates = <<>>
  /\ c_google = EmptySuggestion
  /\ c_openlibrary = EmptySuggestion

\* search_correct_isbn on the candidates
SearchGoogle ==
  /\ c_pc = "google"
  /\ c_google' = search_correct_isbn(SearchTitle, RulesEdition,
                    [k \in 1..Len(c_candidates) |-> AsGoogleItem(c_candidates[k])])
  /\ c_pc' = "openlibrary"
  /\ UNCHANGED <<c_candidates, c_openlibrary>>
  /\ UNCHANGED <<edVars, normVars, valVars, repVars, appVars>>

\* search_correct_isbn_openlibrary on the same candidates
SearchOpenLibrary ==
  /\ c_pc = "openlibrary"
  /\ c_openlibrary' = search_correct_isbn_openlibrary(SearchTitle, RulesEdition,
                    [k \in 1..Len(c_candidates) |-> AsOpenLibraryEntry(c_candidates[k])])
  /\ c_pc' = "done"
  /\ UNCHANGED <<c_candidates, c_google>>
  /\ UNCHANGED <<edVars, normVars, valVars, repVars, appVars>>

RulesNext ==
  \/ SearchGoogle
  \/ SearchOpenLibrary

(***************************************************************************)
(* Specifications.                                                         *)
(***************************************************************************)
InitEdition == RulesIdle /\ NormalizeIdle /\ ValidateIdle /\ RepairIdle /\ ApplyIdle /\ EditionInit

SpecEdition == InitEdition /\ [][EditionNext]_vars

InitNormalize == RulesIdle /\ EditionIdle /\ ValidateIdle /\ RepairIdle /\ ApplyIdle /\ NormalizeInit

SpecNormalize == InitNormalize /\ [][NormalizeNext]_vars

InitRules == EditionIdle /\ NormalizeIdle /\ ValidateIdle /\ RepairIdle /\ ApplyIdle /\ RulesInit

SpecRules == InitRules /\ [][RulesNext]_vars

InitValidate == RulesIdle /\ EditionIdle /\ NormalizeIdle /\ RepairIdle /\ ApplyIdle /\ ValidateInit

SpecValidate == InitValidate /\ [][ValidateNext]_vars

InitRepair == RulesIdle /\ EditionIdle /\ NormalizeIdle /\ ValidateIdle /\ ApplyIdle /\ RepairInit("searches")

SpecRepair == InitRepair /\ [][RepairNext]_vars

InitRepairBatch == RulesIdle /\ EditionIdle /\ NormalizeIdle /\ ValidateIdle /\ ApplyIdle /\ RepairInit("rows")

SpecRepairBatch == InitRepairBatch /\ [][RepairNext]_vars

\* the two loops over books: main in validation mode, repair_mismatches
InitBatches == InitValidate \/ InitRepairBatch

NextBatches == ValidateNext \/ RepairNext

SpecBatches == InitBatches /\ [][NextBatches]_vars

InitApply == RulesIdle /\ EditionIdle /\ NormalizeIdle /\ ValidateIdle /\ RepairIdle /\ ApplyInit

SpecApply == InitApply /\ [][ApplyNext]_vars

Init == InitEdition \/ InitNormalize \/ InitRules \/ InitValidate \/ InitRepair \/ InitRepairBatch \/ InitApply

Next == EditionNext \/ NormalizeNext \/ RulesNext \/ ValidateNext \/ RepairNext \/ ApplyNext

Spec == Init /\ [][Next]_vars

(***************************************************************************)
(* Properties of compare_editions.                                         *)
(***************************************************************************)
\* C1: compare_editions returns 'uncertain' when the fetched edition is
\* None or empty; otherwise 'match' when normalize_edition(claimed) equals
\* the fetched token; otherwise 'uncertain' when the fetched token is
\* 'revised'; otherwise 'mismatch'; it returns nothing else.  In particular
\* ('Second', None) -> uncertain, ('2', '2') -> match, ('3', 'revised') ->
\* uncertain, ('3', '2') -> mismatch.
C1_CompareEditions ==
  e_pc = "done" =>
    LET fetched == e_api_edition
        claimed == e_csv_edition
        absent  == fetched = None \/ fetched = <<>>
        equal   == normalize_edition(claimed) = fetched
    IN  /\ e_status \in {"match", "mismatch", "uncertain"}
        /\ absent => e_status = "uncertain"
        /\ (~absent /\ equal) => e_status = "match"
        /\ (~absent /\ ~equal /\ fetched = REVISED) => e_status = "uncertain"
        /\ (~absent /\ ~equal /\ fetched # REVISED) => e_status = "mismatch"
        /\ (claimed = <<"S","e","c","o","n","d">> /\ fetched = None)
              => e_status = "uncertain"
        /\ (claimed = <<"2">> /\ fetched = <<"2">>) => e_status = "match"
        /\ (claimed = <<"3">> /\ fetched = REVISED) => e_status = "uncertain"
        /\ (claimed = <<"3">> /\ fetched = <<"2">>) => e_status = "mismatch"

\* a claimed 'Revised' against a fetched 'revised' has been compared: the
\* equality test comes before the 'revised' test
C1_Witness ==
  /\ e_pc = "done"
  /\ e_csv_edition = <<"R","e","v","i","s","e","d">>
  /\ e_api_edition = REVISED
  /\ e_status = "match"

(***************************************************************************)
(* Properties of validate_book.                                            *)
(***************************************************************************)
GoogleFetch == "fetch_google_books_by_volumeid"

OpenLibraryFetch == "fetch_open_library_by_isbn"

CallsTo(fn) == {k \in 1..Len(v_calls) : v_calls[k].fn = fn}

\* validate_book is past its fetches for the current book, by return or by
\* an exception of a fetch
FetchesOver ==
  \/ v_pc = "process"
  \/ v_pc \in {"sleep", "write", "summary", "done"} /\ results # <<>>
  \/ v_pc = "crashed" /\ v_exc = "HTTPError"

\* validate_book has returned for the current book
BookReturned == v_pc \in {"sleep", "write", "summary", "done"} /\ results # <<>>

\* C2: without dry-run, the primary source is fetched by volume id, first,
\* if and only if the entry has a non-empty id; the fallback is fetched by
\* ISBN exactly when there is no id or the id lookup returned null, never
\* when the primary returned a record; the record that is non-null sets the
\* provenance and is the one compared; if both return null the verdict
\* stays 'not-found'.
C2_FetchOrder ==
  (FetchesOver /\ ~v_dry_run) =>
    LET book   == books_to_check[v_i]
        has_id == Strip(book.VolumeID) # <<>>
        g      == CallsTo(GoogleFetch)
        o      == CallsTo(OpenLibraryFetch)
        found  == {k \in 1..Len(v_calls) : v_calls[k].ret = "record"}
    IN  /\ has_id <=> g = {1}
        /\ ~has_id => g = {}
        /\ Cardinality(o) <= 1
        /\ o # {} <=> (~has_id \/ v_calls[1].ret = "None")
        /\ \A k \in o : k = Len(v_calls) /\ \A j \in g : j < k
        /\ \A k \in o : \A j \in g : v_calls[j].ret # "record"
        /\ BookReturned =>
             LET last == results[Len(results)]
             IN  /\ Cardinality(found) <= 1
                 /\ \A k \in found :
                      /\ last.Source = IF v_calls[k].fn = GoogleFetch
                                       THEN "google" ELSE "openlibrary"
                      /\ last.Match_Status =
                           compare_editions(book.Edition, v_calls[k].edition)
                 /\ found = {} =>
                      last.Match_Status = "not-found" /\ last.Source = ""

\* a book with an id whose id lookup returned null was then found by ISBN
C2_Witness ==
  /\ BookReturned /\ ~v_dry_run
  /\ Len(v_calls) = 2
  /\ v_calls[1].fn = GoogleFetch /\ v_calls[1].ret = "None"
  /\ v_calls[2].fn = OpenLibraryFetch /\ v_calls[2].ret = "record"
  /\ results[Len(results)].Source = "openlibrary"
  /\ results[Len(results)].Match_Status = "mismatch"

\* C3: a transport failure of a single network call never aborts the batch;
\* for a fetch it is treated as the source having returned null and
\* processing continues: no exception of a fetch leaves per-book processing.
C3_TransportFailureNeverAborts ==
  /\ ~(v_pc = "crashed" /\ v_exc = "HTTPError")
  /\ \A k \in 1..Len(v_calls) : v_calls[k].ret # "raise"

(***************************************************************************)
(* Properties of the repair search.                                        *)
(***************************************************************************)
\* the normalized claimed edition of the book being repaired
TargetEdition == normalize_edition(mismatches[r_i].CSV_Edition)

\* the item has a matching title and the claimed edition
IsExact(item) ==
  /\ TitleMatch(mismatches[r_i].Title, item.title)
  /\ item.edition = TargetEdition

FallbackQueried ==
  \E k \in 1..Len(r_calls) : r_calls[k] = "search_correct_isbn_openlibrary"

\* the searches of the current book are over
SearchesOver == r_pc \in {"emit", "sleep", "write", "done"} /\ r_calls # <<>>

\* the suggestion of the current book has been appended
Emitted == r_pc \in {"sleep", "write", "done"} /\ suggestions # <<>>

LastSuggestion == suggestions[Len(suggestions)]

\* C4 as stated: given a candidate list in which exactly one candidate has a
\* matching title and the normalized claimed edition, search_correct_isbn
\* returns 'high' with that candidate's first ISBN and source 'google' and
\* evaluates no later candidate.
C4_ExactlyOneExactIsHigh ==
  (r_pc = "after_google" /\ g_items # <<>>) =>
    LET exact == {k \in 1..Len(g_items) : IsExact(g_items[k])}
    IN  Cardinality(exact) = 1 =>
          \A k \in exact :
            /\ g_result.confidence = "high"
            /\ g_result.source = "google"
            /\ g_items[k].isbns # <<>>
            /\ g_result.suggested_isbn = g_items[k].isbns[1]
            /\ g_idx = k

\* C4, amended: given a candidate list in which exactly one of the
\* candidates that are among the first 10 and carry an ISBN has a matching
\* title and the normalized claimed edition, search_correct_isbn returns
\* 'high' with that candidate's first ISBN and source 'google' and evaluates
\* no later candidate.
C4_ExactlyOneUsableExactIsHigh ==
  (r_pc = "after_google" /\ g_items # <<>>) =>
    LET exact == {k \in 1..Len(g_items) :
                    /\ k <= GoogleItemLimit
                    /\ g_items[k].isbns # <<>>
                    /\ IsExact(g_items[k])}
    IN  Cardinality(exact) = 1 =>
          \A k \in exact :
            /\ g_result.confidence = "high"
            /\ g_result.source = "google"
            /\ g_result.suggested_isbn = g_items[k].isbns[1]
            /\ g_idx = k

\* the exact candidate came second, after a candidate already recorded as
\* 'medium', and a third candidate was left unevaluated
C4_Witness ==
  /\ r_pc = "after_google"
  /\ g_items = <<ItemOther, ItemExact, ItemNoEd>>
  /\ TargetEdition = <<"2">>
  /\ g_idx = 2
  /\ g_result.confidence = "high"
  /\ g_result.suggested_isbn = "i1"

\* C5: within the repair search of one book, once a 'high' suggestion has
\* been found it is never replaced or downgraded by a later candidate or by
\* the fallback source: the suggestion emitted for the book is 'high' and
\* carries the ISBN of that high candidate.
C5_HighIsFinal ==
  /\ [][ /\ (r_pc # "google" /\ g_result.confidence = "high")
              => g_result' = g_result
         /\ (r_pc # "google" /\ ol_result.confidence = "high")
              => ol_result' = ol_result
         /\ (r_pc # "after_google" /\ r_pc # "google" /\ r_result.confidence = "high")
              => r_result' = r_result ]_vars
  /\ [](Emitted =>
          /\ g_result.confidence = "high" =>
               /\ LastSuggestion.Confidence = "high"
               /\ LastSuggestion.Suggested_ISBN = g_result.suggested_isbn
               /\ LastSuggestion.Source = "google"
          /\ (g_result.confidence # "high" /\ ol_result.confidence = "high") =>
               /\ LastSuggestion.Confidence = "high"
               /\ LastSuggestion.Suggested_ISBN = ol_result.suggested_isbn
               /\ LastSuggestion.Source = "openlibrary")

\* a book whose primary search found a 'high' candidate has been emitted
C5_Witness ==
  /\ Emitted
  /\ g_result.confidence = "high"
  /\ LastSuggestion.Confidence = "high"
  /\ LastSuggestion.Suggested_ISBN = "i1"

\* C6 as stated: for every mismatched book the fallback search is queried
\* if the primary search does not yield 'high', and is not queried if it
\* does.
C6_FallbackIffNotHigh ==
  SearchesOver => (FallbackQueried <=> g_result.confidence # "high")

\* C6, amended: for every mismatched book the fallback search is queried
\* exactly when the primary search returned confidence 'low' or no
\* suggested ISBN; after a 'high' or a 'medium' primary suggestion it is not
\* queried.
C6_FallbackIffLowOrEmpty ==
  SearchesOver =>
    /\ FallbackQueried <=>
         (g_result.confidence = "low" \/ g_result.suggested_isbn = "")
    /\ g_result.confidence \in {"high", "medium"} => ~FallbackQueried

\* a book whose primary search returned 'medium' was emitted without the
\* fallback having been queried
C6_Witness ==
  /\ Emitted
  /\ g_result.confidence = "medium"
  /\ ~FallbackQueried
  /\ LastSuggestion.Confidence = "medium"
  /\ LastSuggestion.Source = "google"

\* C7: when the fallback source is queried, its result replaces the primary
\* suggestion if and only if it is 'high', or it has a suggested ISBN and
\* the primary had none; otherwise the primary suggestion (ISBN, source,
\* confidence, notes) is kept unchanged.
C7_ReplaceOnlyIfBetter ==
  (SearchesOver /\ FallbackQueried) =>
    LET better == \/ ol_result.confidence = "high"
                  \/ (ol_result.suggested_isbn # "" /\ g_result.suggested_isbn = "")
        kept   == IF better THEN ol_result ELSE g_result
    IN  /\ r_result = kept
        /\ (r_result = ol_result) <=> better
        /\ Emitted =>
             /\ LastSuggestion.Suggested_ISBN = kept.suggested_isbn
             /\ LastSuggestion.Source = kept.source
             /\ LastSuggestion.Confidence = kept.confidence
             /\ LastSuggestion.Notes = kept.notes

\* a 'low' primary suggestion with an ISBN was kept although the fallback
\* returned a 'medium' suggestion
C7_Witness ==
  /\ Emitted /\ FallbackQueried
  /\ g_result.confidence = "low" /\ g_result.suggested_isbn = "i4"
  /\ ol_result.confidence = "medium" /\ ol_result.suggested_isbn # ""
  /\ LastSuggestion.Suggested_ISBN = "i4"
  /\ LastSuggestion.Confidence = "low"

GoogleNotes ==
  { "No results found in Google Books", "Found results but no edition match",
    "Error searching Google Books" }

OpenLibraryNotes ==
  { "No results found in Open Library", "Found work but no edition match",
    "Error searching Open Library" }

\* a suggestion dict with all its fields
IsSuggestion(r) ==
  /\ DOMAIN r = {"suggested_isbn", "source", "confidence", "notes"}
  /\ r.confidence \in {"high", "medium", "low"}

\* C8: every repair search that ends without a high-confidence hit still
\* returns a suggestion; if no candidate was recorded its suggested ISBN is
\* empty and its notes carry an explanatory note (no results, no edition
\* match, or the search error).
C8_NoMatchIsData ==
  /\ (r_pc = "after_google" /\ g_result.confidence # "high") =>
        /\ IsSuggestion(g_result)
        /\ g_result.suggested_isbn = "" =>
             g_result.notes \in GoogleNotes /\ g_result.source = ""
  /\ (r_pc = "after_openlibrary" /\ ol_result.confidence # "high") =>
        /\ IsSuggestion(ol_result)
        /\ ol_result.suggested_isbn = "" =>
             ol_result.notes \in OpenLibraryNotes /\ ol_result.source = ""
  /\ Emitted =>
        (LastSuggestion.Suggested_ISBN = "" => LastSuggestion.Notes # "")

\* the primary search went through a non-empty candidate list and recorded
\* nothing
C8_Witness ==
  /\ r_pc = "after_google"
  /\ g_items # <<>>
  /\ g_result.suggested_isbn = ""
  /\ g_result.confidence = "low"
  /\ g_result.notes = "Found results but no edition match"

(***************************************************************************)
(* Properties of apply_repairs.                                            *)
(***************************************************************************)
\* C9: apply_repairs writes a verbatim backup copy of the full catalog
\* before any mutation of the catalog file; the catalog file is written at
\* most once and only after the backup write has completed; if the backup
\* write fails the catalog is never written and stays unchanged.
C9_BackupBeforeWrite ==
  /\ [][ (data_writes' # data_writes \/ data_file' # data_file) =>
            /\ backup_writes = 1
            /\ backup_file = data_file
            /\ backup_file = a_catalog
            /\ data_writes = 0 /\ data_writes' = 1 ]_vars
  /\ [](data_writes <= 1)
  /\ [](a_exc # "" => (a_pc = "crashed" /\ data_writes = 0 /\ data_file = a_catalog))
  /\ [][ a_pc = "crashed" => (a_pc' = "crashed" /\ data_file' = data_file) ]_vars

\* the catalog has been rewritten and the backup holds what it held before
C9_Witness ==
  /\ a_pc = "done"
  /\ data_writes = 1
  /\ backup_writes = 1
  /\ backup_file = a_catalog
  /\ data_file # a_catalog

\* the suggestions of the file that apply_repairs may act on
Qualifying ==
  {k \in 1..Len(suggestions_file) :
     /\ suggestions_file[k].Confidence = "high"
     /\ suggestions_file[k].Suggested_ISBN # ""}

\* every row of the given rows is a row of the original catalog, or is one
\* with its ISBN replaced by the suggested ISBN of a qualifying suggestion
\* for its title
OnlyQualifyingChanges(rows) ==
  /\ Len(rows) = Len(a_catalog)
  /\ \A i \in 1..Len(rows) :
       \/ rows[i] = a_catalog[i]
       \/ /\ rows[i] = [a_catalog[i] EXCEPT !.ISBN = rows[i].ISBN]
          /\ \E k \in Qualifying :
               /\ suggestions_file[k].Title = rows[i].Title
               /\ suggestions_file[k].Suggested_ISBN = rows[i].ISBN

\* C10: apply_repairs acts only on suggestions with confidence 'high' and a
\* non-empty suggested ISBN: a medium, low or empty-ISBN suggestion never
\* changes a catalog row, and when no suggestion qualifies the catalog file
\* is left untouched and zero changes are produced.
C10_OnlyHighWithIsbn ==
  /\ OnlyQualifyingChanges(data_file)
  /\ a_pc \in {"apply", "write", "done"} /\ a_suggestions # <<>>
        => OnlyQualifyingChanges(a_books)
  /\ \A k \in 1..Len(a_suggestions) :
        a_suggestions[k].Confidence = "high" /\ a_suggestions[k].Suggested_ISBN # ""
  /\ (Qualifying = {} /\ a_pc # "read_suggestions") =>
        /\ a_pc = "done"
        /\ data_file = a_catalog
        /\ data_writes = 0
        /\ changes_made = 0
        /\ backup_file = NoFile

\* a medium suggestion whose title and ISBN match a row was left unapplied
\* while a qualifying suggestion for another row was applied
C10_Witness ==
  /\ a_pc = "done"
  /\ suggestions_file = <<SugMedium, SugOther>>
  /\ a_catalog = << [Title |-> "T1", ISBN |-> "c1", Author |-> "a"],
                    [Title |-> "T2", ISBN |-> "c2", Author |-> "a"] >>
  /\ data_file = << [Title |-> "T1", ISBN |-> "c1", Author |-> "a"],
                    [Title |-> "T2", ISBN |-> "n1", Author |-> "a"] >>
  /\ changes_made = 1

(***************************************************************************)
(* C11.  Each accepted suggestion rewrites the ISBN of the first row, in   *)
(* catalog order, whose Title and ISBN equal the suggestion's Title and    *)
(* Current ISBN, and no other row, even when several rows match; so the    *)
(* number of changes never exceeds the number of accepted suggestions.     *)
(***************************************************************************)
MatchingRows(books, suggestion) ==
  {k \in 1..Len(books) : /\ books[k].Title = suggestion.Title
                         /\ books[k].ISBN = suggestion.Current_ISBN}

C11_StepTouchesFirstMatch ==
  a_pc = "apply" =>
    LET sug     == a_suggestions[a_k]
        hits    == MatchingRows(a_books, sug)
        touched == {k \in 1..Len(a_books) : a_books'[k] # a_books[k]}
    IN  /\ Len(a_books') = Len(a_books)
        /\ Cardinality(touched) <= 1
        /\ IF hits = {}
           THEN touched = {} /\ changes_made' = changes_made
           ELSE /\ touched = {SetMin(hits)}
                /\ a_books'[SetMin(hits)] =
                     [a_books[SetMin(hits)] EXCEPT !.ISBN = sug.Suggested_ISBN]
                /\ changes_made' = changes_made + 1

C11_FirstMatchOnly ==
  /\ [][C11_StepTouchesFirstMatch]_vars
  /\ [](changes_made <= Len(a_suggestions))
  /\ [](a_pc \in {"apply", "write", "done"} /\ a_books # <<>> =>
          Cardinality({k \in 1..Len(a_books) : a_books[k] # a_catalog[k]})
            <= changes_made)

\* two equal rows and one accepted suggestion for them: the first row was
\* rewritten, the second was not
C11_Witness ==
  /\ a_pc = "done"
  /\ a_suggestions = <<SugChange>>
  /\ Len(a_catalog) = 2
  /\ a_catalog[1] = a_catalog[2]
  /\ a_catalog[1].Title = "T1" /\ a_catalog[1].ISBN = "c1"
  /\ data_file[1].ISBN = "n1"
  /\ data_file[2].ISBN = "c1"
  /\ changes_made = 1

(***************************************************************************)
(* C12, as claimed.  If no row matched any accepted suggestion,            *)
(* apply_repairs has written no file at all: neither the catalog nor the   *)
(* backup.                                                                 *)
(***************************************************************************)
C12_NoFileWriteAtAll ==
  a_pc = "done" /\ changes_made = 0 =>
    /\ data_writes = 0
    /\ backup_writes = 0
    /\ backup_file = NoFile

(***************************************************************************)
(* C12, amended.  If no row matched any accepted suggestion, apply_repairs *)
(* has not written the catalog, which is as it was, and reports zero       *)
(* changes; the backup copy has been written all the same whenever a       *)
(* suggestion was accepted.  The catalog is written only if a row changed. *)
(***************************************************************************)
C12_NoCatalogWrite ==
  /\ a_pc = "done" /\ changes_made = 0 =>
        /\ data_writes = 0
        /\ data_file = a_catalog
        /\ a_suggestions # <<>> => backup_writes = 1 /\ backup_file = a_catalog
        /\ a_suggestions = <<>> => backup_writes = 0 /\ backup_file = NoFile
  /\ data_writes > 0 => changes_made > 0

\* an accepted suggestion that matched no row: the backup exists, the
\* catalog was not written
C12_Witness ==
  /\ a_pc = "done"
  /\ a_suggestions # <<>>
  /\ a_catalog # <<>>
  /\ changes_made = 0
  /\ data_writes = 0
  /\ backup_writes = 1

(***************************************************************************)
(* C13.  With exactly one accepted suggestion, matching exactly one row of *)
(* the catalog, apply_repairs leaves a catalog that differs from the       *)
(* original in that row's ISBN only (same rows, same order, same other     *)
(* fields), now the suggested ISBN, and exactly one backup, whose content  *)
(* is the original catalog.                                                *)
(***************************************************************************)
C13_OneSuggestionOneRow ==
  a_pc = "done" /\ Len(SelectSeq(suggestions_file, Accepted)) = 1 =>
    LET sug  == SelectSeq(suggestions_file, Accepted)[1]
        hits == MatchingRows(a_catalog, sug)
    IN  Cardinality(hits) = 1 =>
          /\ data_file = [a_catalog EXCEPT ![SetMin(hits)].ISBN =
                                              sug.Suggested_ISBN]
          /\ data_writes = 1
          /\ backup_writes = 1
          /\ backup_file = a_catalog

\* the matching row is the second of two rows with the same ISBN
C13_Witness ==
  /\ a_pc = "done"
  /\ SelectSeq(suggestions_file, Accepted) = <<SugChange>>
  /\ Len(suggestions_file) = 2
  /\ Len(a_catalog) = 2
  /\ a_catalog[1].Title = "T2" /\ a_catalog[1].ISBN = "c1"
  /\ a_catalog[2].Title = "T1" /\ a_catalog[2].ISBN = "c1"
  /\ data_file[1] = a_catalog[1]
  /\ data_file[2] = [a_catalog[2] EXCEPT !.ISBN = "n1"]
  /\ backup_file = a_catalog

(***************************************************************************)
(* C14.  With dry_run set, validate_book returns the verdict 'dry-run' for *)
(* the entry without calling either fetch, and the fetched edition and the *)
(* source of the result are empty.                                         *)
(***************************************************************************)
C14_DryRunNoNetwork ==
  v_dry_run /\ v_pc # "off" =>
    /\ v_calls = <<>>
    /\ v_pc \notin {"fetch_google", "fetch_openlibrary", "process", "crashed"}
    /\ v_api_data = NoData
    /\ v_entry = "call" /\ v_pc = "done" =>
          /\ Len(results) = 1
          /\ results[1] = v_result
          /\ results[1].Match_Status = "dry-run"
          /\ results[1].API_Edition = <<>>
          /\ results[1].Source = ""
          /\ results[1].CSV_Edition = books_to_check[1].Edition
          /\ results[1].CSV_ISBN = books_to_check[1].ISBN

\* validate_book was called with dry_run for a book that has a volume id
\* and has returned
C14_Witness ==
  /\ v_dry_run
  /\ v_entry = "call"
  /\ v_pc = "done"
  /\ Strip(books_to_check[1].VolumeID) # <<>>
  /\ results[1].Match_Status = "dry-run"
  /\ v_calls = <<>>

(***************************************************************************)
(* C15.  For every key of word_to_num ('first'..'fifteenth', '1st'..       *)
(* '15th'), typed in lower case, upper case or capitalized, with or        *)
(* without blanks around it, normalize_edition returns the digit string    *)
(* the table gives for that key.                                           *)
(***************************************************************************)
C15_OrdinalsToDigits ==
  n_pc \in {"returned", "returned again"} =>
    \A k \in 1..Len(word_to_num) :
      n_edition_str \in Typed(word_to_num[k][1]) => n_result = word_to_num[k][2]

(***************************************************************************)
(* C16.  normalize_edition returns every token it can return unchanged:    *)
(* normalize_edition(normalize_edition(x)) = normalize_edition(x).         *)
(***************************************************************************)
C16_Idempotent ==
  n_pc = "returned again" => n_again = n_result

(***************************************************************************)
(* C17.  The Open Library search gives a list of candidates the confidence *)
(* and the ISBN that the Google Books search gives the same candidates:    *)
(* 'high' only for a candidate whose edition equals the normalized claim   *)
(* and whose title matches, 'medium' for a matching title with another     *)
(* edition, 'low' for a matching title without an edition.                 *)
(***************************************************************************)
C17_SameRules ==
  c_pc = "done" =>
    /\ c_openlibrary.confidence = c_google.confidence
    /\ c_openlibrary.suggested_isbn = c_google.suggested_isbn

(***************************************************************************)
(* C18.  When search_correct_isbn finds no 'high' candidate, what it       *)
(* returns comes from the first of the first 10 items that has an ISBN and *)
(* a matching title: 'medium' if that item has an edition, 'low' if not;   *)
(* items without ISBN and items past the tenth play no part, and a         *)
(* 'medium' or 'low' once recorded is replaced by no later 'medium' or     *)
(* 'low'.  Without such an item it returns no ISBN.                        *)
(***************************************************************************)
UsableItems ==
  {k \in 1..Len(g_items) :
     /\ k <= GoogleItemLimit
     /\ g_items[k].isbns # <<>>
     /\ TitleMatch(mismatches[r_i].Title, g_items[k].title)}

C18_ReturnsFirstUsable ==
  (r_pc = "after_google" /\ g_items # <<>> /\ g_result.confidence # "high") =>
    IF UsableItems = {}
    THEN g_result.suggested_isbn = "" /\ g_result.source = ""
    ELSE LET first == g_items[SetMin(UsableItems)]
         IN  /\ g_result.suggested_isbn = first.isbns[1]
             /\ g_result.source = "google"
             /\ g_result.confidence =
                  IF IsFalsy(first.edition) THEN "low" ELSE "medium"

C18_RecordedIsKept ==
  (r_pc = "g_loop" /\ g_result.suggested_isbn # "") =>
     g_result' = g_result \/ g_result'.confidence = "high"

C18_FirstUsableCandidate ==
  /\ []C18_ReturnsFirstUsable
  /\ [][C18_RecordedIsKept]_vars

\* an exact item without ISBN was skipped, an item without edition was
\* recorded as 'low', and the 'medium' item after it did not replace it
C18_Witness ==
  /\ r_pc = "after_google"
  /\ g_items = <<ItemNoIsbn, ItemNoEd, ItemOther>>
  /\ g_idx = 3
  /\ g_result.confidence = "low"
  /\ g_result.suggested_isbn = "i4"

\* ten items without a matching title, then a 'medium' item that was never
\* looked at
C18_WitnessPastTenth ==
  /\ r_pc = "after_google"
  /\ Len(g_items) = GoogleItemLimit + 1
  /\ g_items[1] = ItemNoTitle
  /\ g_items[GoogleItemLimit + 1] = ItemOther
  /\ g_idx = GoogleItemLimit
  /\ g_result.suggested_isbn = ""

(***************************************************************************)
(* C19.  Every entry of the batch gets exactly one verdict, one of match,  *)
(* mismatch, uncertain, not-found and dry-run: the batch ends with one     *)
(* result per entry of books_to_check, in the order of the entries, and    *)
(* written to the output file; a result once appended is never changed     *)
(* while later entries are processed.                                      *)
(***************************************************************************)
Verdicts == {"match", "mismatch", "uncertain", "not-found", "dry-run"}

C19_ResultsFollowEntries ==
  /\ Len(results) <= Len(books_to_check)
  /\ \A k \in 1..Len(results) :
       /\ results[k].Match_Status \in Verdicts
       /\ results[k].CSV_Edition = books_to_check[k].Edition
       /\ results[k].CSV_ISBN = books_to_check[k].ISBN
  /\ (v_entry = "main" /\ ~v_dry_run /\ v_pc \in {"done", "crashed"}) =>
       /\ Len(results) = Len(books_to_check)
       /\ output_file = results

C19_ResultsAreKept ==
  /\ Len(results') >= Len(results)
  /\ \A k \in 1..Len(results) : results'[k] = results[k]

C19_OneVerdictPerEntry ==
  /\ []C19_ResultsFollowEntries
  /\ [][C19_ResultsAreKept]_vars

(***************************************************************************)
(* C20.  repair_mismatches searches only for the rows of the results file  *)
(* whose Match Status is 'mismatch', in the order of the file, never for a *)
(* row with status match, uncertain, not-found or dry-run, and emits       *)
(* exactly one suggestion for each mismatch row, in that order.            *)
(***************************************************************************)
MismatchRowsOfFile ==
  LET pos == {k \in 1..Len(results_file) :
                results_file[k].Match_Status = "mismatch"}
      RECURSIVE pick(_)
      pick(k) == IF k > Len(results_file) THEN <<>>
                 ELSE IF k \in pos THEN <<results_file[k]>> \o pick(k + 1)
                 ELSE pick(k + 1)
  IN  pick(1)

IsPrefix(xs, ys) == Len(xs) <= Len(ys) /\ xs = SubSeq(ys, 1, Len(xs))

SuggestionIsFor(suggestion, row) ==
  /\ suggestion.Title = row.Title
  /\ suggestion.Current_ISBN = row.CSV_ISBN
  /\ suggestion.Current_Edition = row.CSV_Edition

C20_OnlyMismatchesRepaired ==
  r_pc # "off" =>
    /\ IsPrefix(r_searched, MismatchRowsOfFile)
    /\ \A k \in 1..Len(r_searched) : r_searched[k].Match_Status = "mismatch"
    /\ Len(suggestions) <= Len(r_searched)
    /\ Len(r_searched) <= Len(suggestions) + 1
    /\ \A k \in 1..Len(suggestions) :
         SuggestionIsFor(suggestions[k], MismatchRowsOfFile[k])
    /\ r_pc = "done" =>
         /\ r_searched = MismatchRowsOfFile
         /\ Len(suggestions) = Len(MismatchRowsOfFile)
         /\ repair_output = suggestions

\* an 'uncertain' row between two different mismatch rows: two searches,
\* two suggestions, in the order of the file
C20_Witness ==
  /\ r_pc = "done"
  /\ Len(results_file) = 3
  /\ results_file[1].Match_Status = "mismatch" /\ results_file[1].CSV_ISBN = "c2"
  /\ results_file[2].Match_Status = "uncertain"
  /\ results_file[3].Match_Status = "mismatch" /\ results_file[3].CSV_ISBN = "c1"
  /\ Len(r_searched) = 2
  /\ Len(repair_output) = 2
  /\ repair_output[1].Current_ISBN = "c2"
  /\ repair_output[2].Current_ISBN = "c1"

(***************************************************************************)
(* C21.  Both loops over books, main's and repair_mismatches', process the *)
(* books one after the other and sleep after every book but the last: a    *)
(* batch of n books has exactly max(0, n-1) sleeps, each between the end   *)
(* of book i and the start of book i+1, and no request for book i+1 is     *)
(* made before book i is completed.                                        *)
(***************************************************************************)
SleepsFor(n) == IF n = 0 THEN 0 ELSE n - 1

C21_MainPacing ==
  (v_entry = "main" /\ v_pc # "off") =>
    /\ v_sleeps = SleepsFor(v_i)
    /\ v_pc \in {"validate_book", "fetch_google", "fetch_openlibrary", "process"}
         => Len(results) = v_i - 1
    /\ v_pc = "sleep" => Len(results) = v_i /\ v_i < Len(books_to_check)
    /\ (v_pc \in {"done", "crashed"} /\ ~v_dry_run)
         => v_sleeps = SleepsFor(Len(books_to_check))

C21_RepairPacing ==
  r_pc # "off" =>
    /\ r_sleeps = SleepsFor(r_i)
    /\ r_pc \in {"google", "g_loop", "after_google", "openlibrary", "ol_loop",
                  "after_openlibrary", "emit"}
         => Len(suggestions) = r_i - 1
    /\ r_pc = "sleep" => Len(suggestions) = r_i /\ r_i < Len(mismatches)
    /\ r_pc = "done" => r_sleeps = SleepsFor(Len(mismatches))

C21_SleepBetweenBooks ==
  /\ v_sleeps' # v_sleeps =>
       /\ v_pc = "sleep" /\ v_pc' = "validate_book"
       /\ v_sleeps' = v_sleeps + 1 /\ v_i' = v_i + 1
  /\ v_i' # v_i /\ v_i > 0 => v_sleeps' = v_sleeps + 1
  /\ r_sleeps' # r_sleeps =>
       /\ r_pc = "sleep" /\ r_pc' = "google"
       /\ r_sleeps' = r_sleeps + 1 /\ r_i' = r_i + 1
  /\ r_i' # r_i /\ r_i > 0 => r_sleeps' = r_sleeps + 1

C21_SequentialAndPaced ==
  /\ [](C21_MainPacing /\ C21_RepairPacing)
  /\ [][C21_SleepBetweenBooks]_vars

(***************************************************************************)
(* C22.  Every suggestion returned by search_correct_isbn and by           *)
(* search_correct_isbn_openlibrary, and every suggestion emitted by        *)
(* repair_mismatches, has a confidence among high, medium and low, has a   *)
(* source exactly when it has a suggested ISBN, and has a suggested ISBN   *)
(* whenever its confidence is high or medium.                              *)
(***************************************************************************)
WellFormed(isbn, source, confidence) ==
  /\ confidence \in {"high", "medium", "low"}
  /\ source # "" <=> isbn # ""
  /\ confidence \in {"high", "medium"} => isbn # ""
  /\ isbn = "" => confidence = "low"

C22_SuggestionsWellFormed ==
  /\ r_pc = "after_google" =>
       WellFormed(g_result.suggested_isbn, g_result.source, g_result.confidence)
  /\ r_pc = "after_openlibrary" =>
       WellFormed(ol_result.suggested_isbn, ol_result.source, ol_result.confidence)
  /\ r_pc = "emit" =>
       WellFormed(r_result.suggested_isbn, r_result.source, r_result.confidence)
  /\ \A k \in 1..Len(suggestions) :
       WellFormed(suggestions[k].Suggested_ISBN, suggestions[k].Source,
                  suggestions[k].Confidence)
  /\ r_pc = "done" =>
       \A k \in 1..Len(repair_output) :
         WellFormed(repair_output[k].Suggested_ISBN, repair_output[k].Source,
                    repair_output[k].Confidence)

\* one book with nothing found by either search, one with a 'high' from
\* Google Books: both suggestions were written
C22_Witness ==
  /\ r_pc = "done"
  /\ Len(repair_output) = 2
  /\ repair_output[1].Suggested_ISBN = "" /\ repair_output[1].Source = ""
  /\ repair_output[1].Confidence = "low"
  /\ repair_output[2].Suggested_ISBN = "i1" /\ repair_output[2].Source = "google"
  /\ repair_output[2].Confidence = "high"

(***************************************************************************)
(* C23.  The suggestion repair_mismatches emits for a book has a           *)
(* confidence that is not lower (low < medium < high) than the one the     *)
(* primary search returned for the book, and has a suggested ISBN if the   *)
(* primary search returned one.                                            *)
(***************************************************************************)
Rank(confidence) ==
  IF confidence = "high" THEN 3 ELSE IF confidence = "medium" THEN 2 ELSE 1

C23_EmittedNotWorseThanPrimary ==
  /\ r_pc = "emit" =>
       /\ Rank(r_result.confidence) >= Rank(g_result.confidence)
       /\ g_result.suggested_isbn # "" => r_result.suggested_isbn # ""
  /\ Emitted =>
       /\ Rank(LastSuggestion.Confidence) >= Rank(g_result.confidence)
       /\ g_result.suggested_isbn # "" => LastSuggestion.Suggested_ISBN # ""

\* the primary search returned a 'low' suggestion with an ISBN, the fallback
\* was queried and found nothing, and the primary suggestion was emitted
C23_Witness ==
  /\ Emitted
  /\ g_result.confidence = "low" /\ g_result.suggested_isbn = "i4"
  /\ FallbackQueried
  /\ ol_result.suggested_isbn = ""
  /\ LastSuggestion.Suggested_ISBN = "i4"
  /\ LastSuggestion.Confidence = "low"

(***************************************************************************)
(* C24.  Within one run of apply_repairs each row is rewritten by at most  *)
(* one suggestion: a suggestion is matched against the ISBNs the rows had  *)
(* before the run, so a row already rewritten is not rewritten again by a  *)
(* later suggestion whose Current ISBN is the ISBN the row was given.      *)
(***************************************************************************)
C24_RewritesOriginalRowsOnly ==
  \A k \in 1..Len(a_books) :
    a_books'[k] # a_books[k] => a_books[k] = a_catalog[k]

C24_MatchedAgainstOriginal ==
  a_pc = "done" /\ data_writes > 0 =>
    \A k \in 1..Len(data_file) :
      data_file[k] # a_catalog[k] =>
        \E j \in 1..Len(a_suggestions) :
          /\ a_suggestions[j].Title = a_catalog[k].Title
          /\ a_suggestions[j].Current_ISBN = a_catalog[k].ISBN
          /\ data_file[k].ISBN = a_suggestions[j].Suggested_ISBN

C24_AtMostOneRewritePerRow ==
  /\ [][a_pc = "apply" => C24_RewritesOriginalRowsOnly]_vars
  /\ []C24_MatchedAgainstOriginal

=============================================================================
